---- MODULE Spec2Model ----
(***************************************************************************)
(* RecifeSafe: the synthetic data generator (generate_simulated_data.py)   *)
(* and the real-data conversion pipeline                                   *)
(* (convert_real_to_synthetic_format.py) as a state machine.               *)
(*                                                                         *)
(* Numbers.  Floats are modelled in fixed point, the unit named at each    *)
(* definition, or as exact rationals (records [nan, n, d]) where the code  *)
(* averages parsed readings.  Library draws (numpy.random) are modelled by *)
(* a small deterministic generator: seeding fixes the state, every draw    *)
(* advances it, and a distribution maps the raw value through a quantile   *)
(* table.  Strings that the code parses are sequences of one-character     *)
(* strings.  Neighbourhood and station names are written without accents;  *)
(* their relative order under Python's string comparison is unchanged.     *)
(***************************************************************************)
EXTENDS Integers, Sequences, FiniteSets, TLC

(***************************************************************************)
(* Bounds of the model.                                                    *)
(***************************************************************************)
\* generate_data is called with n_days in 1..MaxDays
MaxDays == 2
\* the wall clock advances at most MaxTicks days during a behaviour
MaxTicks == 1
\* generate_data is called at most MaxRuns times in a behaviour
MaxRuns == 2
\* rows of the tide file read by main()
PipeMareRows == 2
\* rows of the rainfall file read by main()
PipeChuvaRows == 1
\* rows of the tide file given to load_mare_data alone
MaxMareRows == 3
\* rows of the rainfall file given to load_chuva_data alone
MaxChuvaRows == 2

\* the longest cell handed to parse_float_br on its own
MaxCellLen == 3

MaxCalls == 3

\* the most features of a GeoJSON
MaxFeatures == 2

\* the most rows of a table handed to calculate_risk_ranking
MaxRankRows == 2

(***************************************************************************)
(* Numbers: exact rationals with a NaN.                                    *)
(***************************************************************************)
NaN == [nan |-> TRUE, n |-> 0, d |-> 1]

Abs(x) == IF x < 0 THEN -x ELSE x

RECURSIVE GCD(_, _)
GCD(a, b) == IF b = 0 THEN a ELSE GCD(b, a % b)

Rat(n, d) ==
  LET g == GCD(Abs(n), Abs(d))
      s == IF d < 0 THEN -1 ELSE 1
  IN  [nan |-> FALSE, n |-> (s * n) \div g, d |-> (s * d) \div g]

IsNaN(x) == x.nan

RatAdd(a, b) == Rat(a.n * b.d + b.n * a.d, a.d * b.d)

RatDivInt(a, k) == Rat(a.n, a.d * k)

RatMul(a, b) == Rat(a.n * b.n, a.d * b.d)

RatLt(a, b) == a.n * b.d < b.n * a.d

RatEq(a, b) == a.n * b.d = b.n * a.d

\* x (an integer) rounded to the nearest multiple of q, ties to even,
\* in units of q: Python's round() on a value held in units of 1/q
RoundHalfEven(x, q) ==
  LET f == x \div q
      r == x % q
  IN  IF 2 * r < q THEN f
      ELSE IF 2 * r > q THEN f + 1
      ELSE IF f % 2 = 0 THEN f ELSE f + 1

\* Series.round(k): a rational rounded to a multiple of 1/scale; NaN stays NaN
RoundRat(a, scale) ==
  IF IsNaN(a) THEN NaN
  ELSE LET num == a.n * scale
           f == num \div a.d
           r == num % a.d
           k == IF 2 * r < a.d THEN f
                ELSE IF 2 * r > a.d THEN f + 1
                ELSE IF f % 2 = 0 THEN f ELSE f + 1
       IN  Rat(k, scale)

\* a rational in fixed point, units of 1/scale, truncated towards -infinity
ToFixed(a, scale) == (a.n * scale) \div a.d

\* F(x) with x evaluated once, before F is applied to its value
Strict(x, F(_)) == CHOOSE r \in {F(v) : v \in {x}} : TRUE

RECURSIVE SumSeq(_)
SumSeq(s) ==
  IF s = <<>> THEN Rat(0, 1)
  ELSE Strict(SumSeq(Tail(s)), LAMBDA t : RatAdd(Head(s), t))

\* Series.mean(skipna=True): the mean of the non-NaN entries, NaN if none
MeanOf(v) == IF v = <<>> THEN NaN ELSE Strict(SumSeq(v), LAMBDA t : RatDivInt(t, Len(v)))

MeanSkipNa(s) == Strict(SelectSeq(s, LAMBDA x : ~IsNaN(x)), MeanOf)

(***************************************************************************)
(* Calendar: a date is the integer YYYYMMDD.                               *)
(***************************************************************************)
MkDate(y, m, d) == y * 10000 + m * 100 + d

YearOf(date) == date \div 10000

MonthOf(date) == (date \div 100) % 100

DayOf(date) == date % 100

IsLeap(y) == (y % 4 = 0 /\ y % 100 # 0) \/ y % 400 = 0

DaysInMonth(y, m) ==
  IF m = 2 THEN (IF IsLeap(y) THEN 29 ELSE 28)
  ELSE IF m \in {4, 6, 9, 11} THEN 30 ELSE 31

ValidDate(y, m, d) == m \in 1..12 /\ d >= 1 /\ d <= DaysInMonth(y, m)

RECURSIVE DaysBefore(_, _)
DaysBefore(y, m) == IF m = 1 THEN 0 ELSE DaysBefore(y, m - 1) + DaysInMonth(y, m - 1)

\* Timestamp.dayofyear
DayOfYear(date) == DaysBefore(YearOf(date), MonthOf(date)) + DayOf(date)

PrevDay(date) ==
  LET y == YearOf(date)
      m == MonthOf(date)
      d == DayOf(date)
  IN  IF d > 1 THEN MkDate(y, m, d - 1)
      ELSE IF m > 1 THEN MkDate(y, m - 1, DaysInMonth(y, m - 1))
      ELSE MkDate(y - 1, 12, 31)

NextDay(date) ==
  LET y == YearOf(date)
      m == MonthOf(date)
      d == DayOf(date)
  IN  IF d < DaysInMonth(y, m) THEN MkDate(y, m, d + 1)
      ELSE IF m < 12 THEN MkDate(y, m + 1, 1)
      ELSE MkDate(y + 1, 1, 1)

RECURSIVE BackDays(_, _)
BackDays(date, k) == IF k = 0 THEN date ELSE BackDays(PrevDay(date), k - 1)

\* pd.date_range(end=today, periods=n, freq='D'): n consecutive days, ascending
DateRange(end, n) == [i \in 1..n |-> BackDays(end, n - i)]

(***************************************************************************)
(* The neighbourhood registries.  lat, lon in 1e-7 degrees;                *)
(* vulnerabilidade in 1e-4; risco_mare, risco_chuva in 1e-3.               *)
(***************************************************************************)
GenBAIRROS_RECIFE ==
  <<
    [bairro |-> "Brasilia Teimosa", lat |-> -80891000, lon |-> -348796000, altitude |-> 2, tipo |-> "litoraneo",
     vulnerabilidade |-> 8200, densidade_pop |-> 18500, risco_mare |-> 950, risco_chuva |-> 750],
    [bairro |-> "Pina", lat |-> -80856000, lon |-> -348831000, altitude |-> 3, tipo |-> "litoraneo",
     vulnerabilidade |-> 6800, densidade_pop |-> 12200, risco_mare |-> 900, risco_chuva |-> 700],
    [bairro |-> "Boa Viagem", lat |-> -81228000, lon |-> -348978000, altitude |-> 5, tipo |-> "litoraneo",
     vulnerabilidade |-> 4500, densidade_pop |-> 9800, risco_mare |-> 750, risco_chuva |-> 500],
    [bairro |-> "Afogados", lat |-> -80531000, lon |-> -349189000, altitude |-> 4, tipo |-> "ribeirinho",
     vulnerabilidade |-> 7800, densidade_pop |-> 16700, risco_mare |-> 650, risco_chuva |-> 850],
    [bairro |-> "Ilha Joana Bezerra", lat |-> -80647000, lon |-> -348972000, altitude |-> 2, tipo |-> "ribeirinho",
     vulnerabilidade |-> 8500, densidade_pop |-> 19200, risco_mare |-> 880, risco_chuva |-> 900],
    [bairro |-> "Coelhos", lat |-> -80636000, lon |-> -348717000, altitude |-> 3, tipo |-> "ribeirinho",
     vulnerabilidade |-> 7200, densidade_pop |-> 14300, risco_mare |-> 800, risco_chuva |-> 780],
    [bairro |-> "Casa Forte", lat |-> -80189000, lon |-> -349247000, altitude |-> 45, tipo |-> "altitude",
     vulnerabilidade |-> 2500, densidade_pop |-> 5400, risco_mare |-> 100, risco_chuva |-> 400],
    [bairro |-> "Apipucos", lat |-> -80303000, lon |-> -349431000, altitude |-> 50, tipo |-> "altitude",
     vulnerabilidade |-> 2800, densidade_pop |-> 4800, risco_mare |-> 80, risco_chuva |-> 450],
    [bairro |-> "Varzea", lat |-> -80411000, lon |-> -349536000, altitude |-> 55, tipo |-> "altitude",
     vulnerabilidade |-> 3500, densidade_pop |-> 6200, risco_mare |-> 50, risco_chuva |-> 500],
    [bairro |-> "Santo Amaro", lat |-> -80469000, lon |-> -348839000, altitude |-> 8, tipo |-> "urbano_denso",
     vulnerabilidade |-> 6500, densidade_pop |-> 13800, risco_mare |-> 450, risco_chuva |-> 700],
    [bairro |-> "Sao Jose", lat |-> -80569000, lon |-> -348819000, altitude |-> 6, tipo |-> "urbano_denso",
     vulnerabilidade |-> 6200, densidade_pop |-> 12900, risco_mare |-> 500, risco_chuva |-> 680],
    [bairro |-> "Ibura", lat |-> -81189000, lon |-> -349447000, altitude |-> 12, tipo |-> "urbano_denso",
     vulnerabilidade |-> 7500, densidade_pop |-> 17500, risco_mare |-> 300, risco_chuva |-> 800],
    [bairro |-> "Cordeiro", lat |-> -80508000, lon |-> -349378000, altitude |-> 25, tipo |-> "urbano_medio",
     vulnerabilidade |-> 4800, densidade_pop |-> 8700, risco_mare |-> 250, risco_chuva |-> 550],
    [bairro |-> "Madalena", lat |-> -80547000, lon |-> -349147000, altitude |-> 10, tipo |-> "urbano_medio",
     vulnerabilidade |-> 5200, densidade_pop |-> 9800, risco_mare |-> 350, risco_chuva |-> 600],
    [bairro |-> "Torre", lat |-> -80456000, lon |-> -349025000, altitude |-> 15, tipo |-> "urbano_medio",
     vulnerabilidade |-> 4200, densidade_pop |-> 7600, risco_mare |-> 280, risco_chuva |-> 520]
  >>

\* the converter's registry, were the vulnerability of its first
\* neighbourhood edited in one script only
ConvBAIRROS_RECIFE_drifted ==
  [GenBAIRROS_RECIFE EXCEPT ![1].vulnerabilidade = 8000]

ConvBAIRROS_RECIFE ==
  <<
    [bairro |-> "Brasilia Teimosa", lat |-> -80891000, lon |-> -348796000, altitude |-> 2, tipo |-> "litoraneo",
     vulnerabilidade |-> 8200, densidade_pop |-> 18500, risco_mare |-> 950, risco_chuva |-> 750],
    [bairro |-> "Pina", lat |-> -80856000, lon |-> -348831000, altitude |-> 3, tipo |-> "litoraneo",
     vulnerabilidade |-> 6800, densidade_pop |-> 12200, risco_mare |-> 900, risco_chuva |-> 700],
    [bairro |-> "Boa Viagem", lat |-> -81228000, lon |-> -348978000, altitude |-> 5, tipo |-> "litoraneo",
     vulnerabilidade |-> 4500, densidade_pop |-> 9800, risco_mare |-> 750, risco_chuva |-> 500],
    [bairro |-> "Afogados", lat |-> -80531000, lon |-> -349189000, altitude |-> 4, tipo |-> "ribeirinho",
     vulnerabilidade |-> 7800, densidade_pop |-> 16700, risco_mare |-> 650, risco_chuva |-> 850],
    [bairro |-> "Ilha Joana Bezerra", lat |-> -80647000, lon |-> -348972000, altitude |-> 2, tipo |-> "ribeirinho",
     vulnerabilidade |-> 8500, densidade_pop |-> 19200, risco_mare |-> 880, risco_chuva |-> 900],
    [bairro |-> "Coelhos", lat |-> -80636000, lon |-> -348717000, altitude |-> 3, tipo |-> "ribeirinho",
     vulnerabilidade |-> 7200, densidade_pop |-> 14300, risco_mare |-> 800, risco_chuva |-> 780],
    [bairro |-> "Casa Forte", lat |-> -80189000, lon |-> -349247000, altitude |-> 45, tipo |-> "altitude",
     vulnerabilidade |-> 2500, densidade_pop |-> 5400, risco_mare |-> 100, risco_chuva |-> 400],
    [bairro |-> "Apipucos", lat |-> -80303000, lon |-> -349431000, altitude |-> 50, tipo |-> "altitude",
     vulnerabilidade |-> 2800, densidade_pop |-> 4800, risco_mare |-> 80, risco_chuva |-> 450],
    [bairro |-> "Varzea", lat |-> -80411000, lon |-> -349536000, altitude |-> 55, tipo |-> "altitude",
     vulnerabilidade |-> 3500, densidade_pop |-> 6200, risco_mare |-> 50, risco_chuva |-> 500],
    [bairro |-> "Santo Amaro", lat |-> -80469000, lon |-> -348839000, altitude |-> 8, tipo |-> "urbano_denso",
     vulnerabilidade |-> 6500, densidade_pop |-> 13800, risco_mare |-> 450, risco_chuva |-> 700],
    [bairro |-> "Sao Jose", lat |-> -80569000, lon |-> -348819000, altitude |-> 6, tipo |-> "urbano_denso",
     vulnerabilidade |-> 6200, densidade_pop |-> 12900, risco_mare |-> 500, risco_chuva |-> 680],
    [bairro |-> "Ibura", lat |-> -81189000, lon |-> -349447000, altitude |-> 12, tipo |-> "urbano_denso",
     vulnerabilidade |-> 7500, densidade_pop |-> 17500, risco_mare |-> 300, risco_chuva |-> 800],
    [bairro |-> "Cordeiro", lat |-> -80508000, lon |-> -349378000, altitude |-> 25, tipo |-> "urbano_medio",
     vulnerabilidade |-> 4800, densidade_pop |-> 8700, risco_mare |-> 250, risco_chuva |-> 550],
    [bairro |-> "Madalena", lat |-> -80547000, lon |-> -349147000, altitude |-> 10, tipo |-> "urbano_medio",
     vulnerabilidade |-> 5200, densidade_pop |-> 9800, risco_mare |-> 350, risco_chuva |-> 600],
    [bairro |-> "Torre", lat |-> -80456000, lon |-> -349025000, altitude |-> 15, tipo |-> "urbano_medio",
     vulnerabilidade |-> 4200, densidade_pop |-> 7600, risco_mare |-> 280, risco_chuva |-> 520]
  >>

MAPEAMENTO_POSTOS ==
  <<
    <<"Recife (Alto da Brasileira)", "Torre">>,
    <<"Recife (Codecipe / Santo Amaro)", "Santo Amaro">>,
    <<"Recife (Varzea)", "Varzea">>,
    <<"Olinda (Alto da Bondade)", "Casa Forte">>,
    <<"Olinda (Academia Santa Gertrudes)", "Casa Forte">>,
    <<"Olinda", "Casa Forte">>,
    <<"Jaboatao (Cidade da Copa)", "Boa Viagem">>,
    <<"Jaboatao dos Guararapes", "Boa Viagem">>,
    <<"Jaboatao dos Guararapes (Bar.Duas Unas)", "Pina">>,
    <<"Camaragibe", "Cordeiro">>,
    <<"Sao Lourenco da Mata (Tapacura)", "Apipucos">>,
    <<"Cabo", "Boa Viagem">>,
    <<"Cabo (Barragem de Gurjau)", "Ibura">>,
    <<"Cabo (Barragem de Suape)", "Boa Viagem">>,
    <<"Cabo (Pirapama)", "Ibura">>,
    <<"Paulista", "Madalena">>,
    <<"Abreu e Lima", "Madalena">>,
    <<"Moreno", "Ibura">>,
    <<"Igarassu", "Afogados">>,
    <<"Igarassu (Bar.Catuca)", "Afogados">>,
    <<"Igarassu (Usina Sao Jose)", "Afogados">>,
    <<"Ipojuca", "Boa Viagem">>,
    <<"Ipojuca (Suape)", "Boa Viagem">>,
    <<"Itamaraca", "Brasilia Teimosa">>,
    <<"Itapissuma", "Brasilia Teimosa">>,
    <<"Goiana (Itapirema - IPA)", "Coelhos">>,
    <<"Goiana", "Coelhos">>,
    <<"Aracoiaba (Granja Cristo Redentor)", "Ilha Joana Bezerra">>
  >>

\* Python's order of the neighbourhood names (str.__lt__, by code point)
BairroOrder ==
  <<"Afogados", "Apipucos", "Boa Viagem", "Brasilia Teimosa", "Casa Forte",
    "Coelhos", "Cordeiro", "Ibura", "Ilha Joana Bezerra", "Madalena", "Pina",
    "Santo Amaro", "Sao Jose", "Torre", "Varzea">>

BairroRank(b) == CHOOSE i \in 1..Len(BairroOrder) : BairroOrder[i] = b

\* (date, bairro) keys compared as sort_values(['date', 'bairro']) compares them
KeyLt(d1, b1, d2, b2) == d1 < d2 \/ (d1 = d2 /\ BairroRank(b1) < BairroRank(b2))

KeyLe(d1, b1, d2, b2) == d1 < d2 \/ (d1 = d2 /\ BairroRank(b1) <= BairroRank(b2))

\* dict.get / Series.map on the station table: the neighbourhood or "" (NaN)
MapPosto(posto) ==
  IF \E i \in 1..Len(MAPEAMENTO_POSTOS) : MAPEAMENTO_POSTOS[i][1] = posto
  THEN LET i == CHOOSE i \in 1..Len(MAPEAMENTO_POSTOS) : MAPEAMENTO_POSTOS[i][1] = posto
       IN  MAPEAMENTO_POSTOS[i][2]
  ELSE ""

(***************************************************************************)
(* The astronomical tide of generate_data, in 1e-4 m, by day of year:      *)
(* MareBaseTab[k] = 1.2 + 0.4 sin(2 pi k / 365.25),                        *)
(* MareDiariaTab[k] = 0.3 sin(2 pi (k mod 29.5) / 29.5).                   *)
(***************************************************************************)
MareBaseTab ==
  <<
    12069, 12138, 12206, 12275, 12344, 12412, 12481, 12549, 12617, 12685, 12752, 12820,
    12887, 12954, 13021, 13087, 13153, 13219, 13284, 13349, 13414, 13478, 13542, 13605,
    13668, 13730, 13792, 13853, 13914, 13974, 14033, 14092, 14151, 14208, 14265, 14322,
    14378, 14432, 14487, 14540, 14593, 14645, 14696, 14747, 14796, 14845, 14893, 14940,
    14986, 15032, 15076, 15120, 15162, 15204, 15245, 15284, 15323, 15361, 15398, 15434,
    15468, 15502, 15535, 15567, 15597, 15627, 15655, 15683, 15709, 15734, 15758, 15781,
    15803, 15824, 15844, 15862, 15879, 15896, 15911, 15924, 15937, 15949, 15959, 15968,
    15976, 15983, 15989, 15994, 15997, 15999, 16000, 16000, 15998, 15996, 15992, 15987,
    15981, 15974, 15965, 15955, 15945, 15933, 15919, 15905, 15890, 15873, 15855, 15836,
    15816, 15795, 15773, 15749, 15725, 15699, 15672, 15645, 15616, 15586, 15555, 15523,
    15490, 15455, 15420, 15384, 15347, 15309, 15270, 15229, 15188, 15146, 15103, 15060,
    15015, 14969, 14923, 14875, 14827, 14778, 14728, 14677, 14626, 14573, 14520, 14466,
    14412, 14357, 14301, 14244, 14187, 14129, 14070, 14011, 13951, 13891, 13830, 13769,
    13707, 13644, 13581, 13518, 13454, 13390, 13325, 13260, 13194, 13128, 13062, 12996,
    12929, 12862, 12795, 12727, 12659, 12591, 12523, 12455, 12386, 12318, 12249, 12181,
    12112, 12043, 11974, 11905, 11837, 11768, 11699, 11631, 11562, 11494, 11426, 11358,
    11290, 11222, 11155, 11088, 11021, 10954, 10888, 10822, 10757, 10691, 10627, 10562,
    10498, 10435, 10371, 10309, 10247, 10185, 10124, 10064, 10004, 9944, 9886, 9828,
    9770, 9713, 9657, 9602, 9547, 9493, 9440, 9387, 9336, 9285, 9235, 9185,
    9137, 9089, 9042, 8997, 8952, 8907, 8864, 8822, 8781, 8740, 8701, 8663,
    8625, 8589, 8553, 8519, 8485, 8453, 8422, 8392, 8362, 8334, 8307, 8281,
    8257, 8233, 8210, 8189, 8169, 8149, 8131, 8114, 8099, 8084, 8071, 8058,
    8047, 8037, 8028, 8021, 8014, 8009, 8005, 8002, 8001, 8000, 8001, 8003,
    8006, 8010, 8015, 8022, 8029, 8038, 8049, 8060, 8072, 8086, 8101, 8116,
    8134, 8152, 8171, 8192, 8213, 8236, 8260, 8285, 8311, 8338, 8366, 8395,
    8426, 8457, 8490, 8523, 8558, 8593, 8630, 8667, 8706, 8745, 8786, 8827,
    8870, 8913, 8957, 9002, 9048, 9095, 9143, 9191, 9241, 9291, 9342, 9394,
    9446, 9500, 9554, 9609, 9664, 9720, 9777, 9835, 9893, 9952, 10011, 10071,
    10132, 10193, 10255, 10317, 10379, 10442, 10506, 10570, 10635, 10699, 10765, 10830,
    10896, 10963, 11029, 11096, 11163, 11231, 11298, 11366, 11434, 11502, 11571, 11639,
    11708, 11776, 11845, 11914, 11983, 12052
  >>

MareDiariaTab ==
  <<
    634, 1240, 1789, 2258, 2624, 2872, 2990, 2973, 2822, 2543, 2149, 1658,
    1092, 477, -160, -789, -1383, -1915, -2360, -2698, -2914, -2999, -2948, -2764,
    -2455, -2035, -1523, -942, -319, 319, 942, 1523, 2035, 2455, 2764, 2948,
    2999, 2914, 2698, 2360, 1915, 1383, 789, 160, -477, -1092, -1658, -2149,
    -2543, -2822, -2973, -2990, -2872, -2624, -2258, -1789, -1240, -634, 0, 634,
    1240, 1789, 2258, 2624, 2872, 2990, 2973, 2822, 2543, 2149, 1658, 1092,
    477, -160, -789, -1383, -1915, -2360, -2698, -2914, -2999, -2948, -2764, -2455,
    -2035, -1523, -942, -319, 319, 942, 1523, 2035, 2455, 2764, 2948, 2999,
    2914, 2698, 2360, 1915, 1383, 789, 160, -477, -1092, -1658, -2149, -2543,
    -2822, -2973, -2990, -2872, -2624, -2258, -1789, -1240, -634, 0, 634, 1240,
    1789, 2258, 2624, 2872, 2990, 2973, 2822, 2543, 2149, 1658, 1092, 477,
    -160, -789, -1383, -1915, -2360, -2698, -2914, -2999, -2948, -2764, -2455, -2035,
    -1523, -942, -319, 319, 942, 1523, 2035, 2455, 2764, 2948, 2999, 2914,
    2698, 2360, 1915, 1383, 789, 160, -477, -1092, -1658, -2149, -2543, -2822,
    -2973, -2990, -2872, -2624, -2258, -1789, -1240, -634, 0, 634, 1240, 1789,
    2258, 2624, 2872, 2990, 2973, 2822, 2543, 2149, 1658, 1092, 477, -160,
    -789, -1383, -1915, -2360, -2698, -2914, -2999, -2948, -2764, -2455, -2035, -1523,
    -942, -319, 319, 942, 1523, 2035, 2455, 2764, 2948, 2999, 2914, 2698,
    2360, 1915, 1383, 789, 160, -477, -1092, -1658, -2149, -2543, -2822, -2973,
    -2990, -2872, -2624, -2258, -1789, -1240, -634, 0, 634, 1240, 1789, 2258,
    2624, 2872, 2990, 2973, 2822, 2543, 2149, 1658, 1092, 477, -160, -789,
    -1383, -1915, -2360, -2698, -2914, -2999, -2948, -2764, -2455, -2035, -1523, -942,
    -319, 319, 942, 1523, 2035, 2455, 2764, 2948, 2999, 2914, 2698, 2360,
    1915, 1383, 789, 160, -477, -1092, -1658, -2149, -2543, -2822, -2973, -2990,
    -2872, -2624, -2258, -1789, -1240, -634, 0, 634, 1240, 1789, 2258, 2624,
    2872, 2990, 2973, 2822, 2543, 2149, 1658, 1092, 477, -160, -789, -1383,
    -1915, -2360, -2698, -2914, -2999, -2948, -2764, -2455, -2035, -1523, -942, -319,
    319, 942, 1523, 2035, 2455, 2764, 2948, 2999, 2914, 2698, 2360, 1915,
    1383, 789, 160, -477, -1092, -1658, -2149, -2543, -2822, -2973, -2990, -2872,
    -2624, -2258, -1789, -1240, -634, 0, 634, 1240, 1789, 2258, 2624, 2872,
    2990, 2973, 2822, 2543, 2149, 1658
  >>

(***************************************************************************)
(* numpy.random: one global stream.  The state is a number in 0..15;       *)
(* seeding sets it, every draw advances it and uses the new state as the   *)
(* raw value u.  Distributions are quantile tables over u (in 1e-3).       *)
(***************************************************************************)
\* np.random.seed(seed)
RngSeed(seed) == seed % 16

\* the state after one more draw; the draw's raw value is the new state
RngStep(s) == (5 * s + 3) % 16

\* the number of states of the stream: RngStep visits them all in turn
RngPeriod == 16

NormalZ ==
  <<-1863, -1318, -1010, -776, -579, -402, -237, -78,
    78, 237, 402, 579, 776, 1010, 1318, 1863>>

GammaQ35 ==
  <<914, 1380, 1709, 1994, 2258, 2515, 2773, 3037,
    3313, 3610, 3937, 4309, 4750, 5308, 6107, 7698>>

GammaQ20 ==
  <<274, 512, 701, 876, 1046, 1218, 1394, 1581,
    1780, 1999, 2245, 2530, 2874, 3319, 3971, 5307>>

\* np.random.gamma(shape, scale): shape, scale and the result in 1e-3
RandomGamma(shape, scale, u) ==
  (scale * (IF shape = 3500 THEN GammaQ35[u + 1] ELSE GammaQ20[u + 1])) \div 1000

\* np.random.rand(): uniform in [0, 1), in 1e-3
RandomRand(u) == (u * 1000) \div 16

\* np.random.uniform(lo, hi), in the unit of lo and hi
RandomUniform(lo, hi, u) == lo + ((hi - lo) * u) \div 16

\* np.random.normal(0, sd), in the unit of sd
RandomNormal(sd, u) == (sd * NormalZ[u + 1]) \div 1000

\* np.random.poisson(lam): lam in 1e-3, the result a count; 0 when lam = 0
RandomPoisson(lam, u) == (lam * u) \div 8000

Max(a, b) == IF a >= b THEN a ELSE b

Min(a, b) == IF a <= b THEN a ELSE b

\* (densidade / 10000) ** 0.3 in 1e-3, for the densities of the registry and
\* for 0, 10000 and 100000 inhabitants per km2
DensPow(densidade) ==
  CASE densidade = 0 -> 0
    [] densidade = 10000 -> 1000
    [] densidade = 100000 -> 1995
    [] densidade = 4800 -> 802
    [] densidade = 5400 -> 831
    [] densidade = 6200 -> 866
    [] densidade = 7600 -> 921
    [] densidade = 8700 -> 959
    [] densidade = 9800 -> 994
    [] densidade = 12200 -> 1061
    [] densidade = 12900 -> 1079
    [] densidade = 13800 -> 1101
    [] densidade = 14300 -> 1113
    [] densidade = 16700 -> 1166
    [] densidade = 17500 -> 1183
    [] densidade = 18500 -> 1203
    [] densidade = 19200 -> 1216

(***************************************************************************)
(* parse_float_br.  A cell is a sequence of one-character strings over     *)
(* digits, ",", ".", "-" and "x", or NullCell (a missing cell, which       *)
(* pandas reads as NaN).                                                   *)
(***************************************************************************)
NullCell == <<"NaN">>

Digits == {"0", "1", "2", "3", "4", "5", "6", "7", "8", "9"}

DigitVal(c) ==
  CASE c = "0" -> 0 [] c = "1" -> 1 [] c = "2" -> 2 [] c = "3" -> 3 [] c = "4" -> 4
    [] c = "5" -> 5 [] c = "6" -> 6 [] c = "7" -> 7 [] c = "8" -> 8 [] c = "9" -> 9

\* line 260 with the replacement of the comma left out
StrReplaceNone(s, a, b) == s

\* str.replace(a, b) for single characters
StrReplace(s, a, b) == [i \in 1..Len(s) |-> IF s[i] = a THEN b ELSE s[i]]

\* does float() accept s: an optional "-", digits with at most one "."
\* and at least one digit
IsFloatLiteral(s) ==
  LET body == IF s # <<>> /\ s[1] = "-" THEN Tail(s) ELSE s
  IN  /\ \A i \in 1..Len(body) : body[i] \in Digits \cup {"."}
      /\ Cardinality({i \in 1..Len(body) : body[i] = "."}) <= 1
      /\ \E i \in 1..Len(body) : body[i] \in Digits

RECURSIVE DigitsValue(_)
DigitsValue(s) ==
  IF s = <<>> THEN 0 ELSE 10 * DigitsValue(SubSeq(s, 1, Len(s) - 1)) + DigitVal(s[Len(s)])

RECURSIVE Pow10(_)
Pow10(k) == IF k = 0 THEN 1 ELSE 10 * Pow10(k - 1)

\* float(s) for an accepted s
FloatValue(s) ==
  LET neg == s[1] = "-"
      body == IF neg THEN Tail(s) ELSE s
      ds == SelectSeq(body, LAMBDA c : c \in Digits)
      dot == IF \E i \in 1..Len(body) : body[i] = "."
             THEN CHOOSE i \in 1..Len(body) : body[i] = "."
             ELSE Len(body) + 1
      v == DigitsValue(ds)
  IN  Rat(IF neg THEN -v ELSE v, Pow10(IF dot <= Len(body) THEN Len(body) - dot ELSE 0))

parse_float_br(value) ==
  IF value = NullCell \/ value = <<"-">> \/ value = <<>> THEN NaN
  ELSE LET t == StrReplace(value, ",", ".")
       IN  IF IsFloatLiteral(t) THEN FloatValue(t) ELSE NaN

(***************************************************************************)
(* generate_data (generate_simulated_data.py).                             *)
(* chuva in 1e-3 mm, mare in 1e-4 m, lambda in 1e-3 until they are stored. *)
(***************************************************************************)
\* lines 130-135: (media_chuva, shape_chuva) of the month, in 1e-3
GenChuvaParams(mes) ==
  IF mes \in {3, 4, 5, 6, 7, 8}
  THEN [media |-> 25000, shape |-> 3500]
  ELSE [media |-> 8000, shape |-> 2000]

\* line 147 with the clamp left out
GenMareClampNone(mare) == mare

\* line 147: mare = max(0.5, mare)
GenMareClamp(mare) == Max(5000, mare)

\* lines 150-165 without the branch of 'altitude'
GenFatoresNoAltitude(tipo) ==
  IF tipo = "litoraneo" THEN [mare |-> 2500, chuva |-> 1200, vuln |-> 1800]
  ELSE IF tipo = "ribeirinho" THEN [mare |-> 1800, chuva |-> 2200, vuln |-> 2000]
  ELSE [mare |-> 800, chuva |-> 1800, vuln |-> 1500]

\* lines 150-165: the factors of a neighbourhood type, in 1e-3
GenFatores(tipo) ==
  IF tipo = "litoraneo" THEN [mare |-> 2500, chuva |-> 1200, vuln |-> 1800]
  ELSE IF tipo = "ribeirinho" THEN [mare |-> 1800, chuva |-> 2200, vuln |-> 2000]
  ELSE IF tipo = "altitude" THEN [mare |-> 100, chuva |-> 1500, vuln |-> 800]
  ELSE [mare |-> 800, chuva |-> 1800, vuln |-> 1500]

\* line 169 with the tide measured from its floor of 0.5 m
GenRiscoMareNormFromFloor(mare, risco_mare, fator_mare) ==
  IF mare > 5000 THEN (mare - 5000) * 2 * risco_mare * (fator_mare \div 100) ELSE 0

\* line 169: ((mare - 1.0) / 0.5) * risco_mare * fator_mare if mare > 1.0
\* else 0; mare in 1e-4 m, risco_mare and fator_mare in 1e-3, the result
\* exact, in 1e-8 (the factors are multiples of 0.1)
GenRiscoMareNorm(mare, risco_mare, fator_mare) ==
  IF mare > 10000 THEN (mare - 10000) * 2 * risco_mare * (fator_mare \div 100) ELSE 0

\* lines 168-181: lambda_total before the clamp
GenLambdaRaw(chuva, mare, vuln_base, densidade, risco_mare, risco_chuva, tipo) ==
  LET f == GenFatores(tipo)
      risco_chuva_norm == ((((chuva \div 50) * risco_chuva) \div 1000) * f.chuva) \div 1000
      risco_mare_norm == GenRiscoMareNorm(mare, risco_mare, f.mare) \div 100000
      risco_vuln_norm == (vuln_base * f.vuln) \div 10000
      lambda_base == 500
      lambda_total ==
        lambda_base
        + (risco_chuva_norm * 400 + risco_mare_norm * 350 + risco_vuln_norm * 250) \div 1000
  IN  (lambda_total * DensPow(densidade)) \div 1000

\* line 184 with the upper limit left out
GenLambdaClampNoCeiling(lambda_total) == Max(0, lambda_total)

\* line 184: lambda_total = max(0, min(lambda_total, 15.0))
GenLambdaClamp(lambda_total) == Max(0, Min(lambda_total, 15000))

\* the order in which the loops of lines 115 and 125 visit (neighbourhood,
\* date) index pairs, were the date loop the outer one
GenLoopOrderDateMajor(n_days) ==
  [k \in 1..(Len(GenBAIRROS_RECIFE) * n_days) |->
     <<((k - 1) % Len(GenBAIRROS_RECIFE)) + 1, ((k - 1) \div Len(GenBAIRROS_RECIFE)) + 1>>]

\* lines 115, 125: for bairro in BAIRROS_RECIFE: for d in dates
GenLoopOrder(n_days) ==
  [k \in 1..(Len(GenBAIRROS_RECIFE) * n_days) |->
     <<((k - 1) \div n_days) + 1, ((k - 1) % n_days) + 1>>]

\* a draw of the stream, as recorded in the draw log
Draw(kind, bairro, date) == [kind |-> kind, bairro |-> bairro, date |-> date]

\* the stream state k steps after state s
RECURSIVE RngIter(_, _)
RngIter(s, k) == IF k = 0 THEN s ELSE RngStep(RngIter(s, k - 1))

\* the raw value of the k-th draw after stream state s; the stream returns to
\* s after RngPeriod steps
RngAt(s, k) == RngIter(s, k % RngPeriod)

\* lines 137-141: the day's rainfall from the gamma draw and, when the
\* rand() draw is below 0.05, the uniform draw
GenChuva(mes, uGamma, extreme, uUniform) ==
  LET p == GenChuvaParams(mes)
      chuva == Max(0, RandomGamma(p.shape, (p.media * 1000) \div p.shape, uGamma))
  IN  IF extreme THEN (chuva * RandomUniform(2000, 4000, uUniform)) \div 1000 ELSE chuva

\* lines 144-147: the day's tide from the normal draw
GenMare(dia_ano, uNormal) ==
  GenMareClamp(MareBaseTab[dia_ano] + MareDiariaTab[dia_ano] + RandomNormal(800, uNormal))

\* lines 173-184: the rate of a row
GenLambda(chuva, mare, info) ==
  GenLambdaClamp(GenLambdaRaw(chuva, mare, info.vulnerabilidade, info.densidade_pop,
                              info.risco_mare, info.risco_chuva, info.tipo))

\* lines 186-204: the row, from its rainfall, tide and rate and the draws
\* that follow them
GenRowOf(info, d, chuva, mare, lambda_total, uPoisson, uLat, uLon) ==
  [date |-> d,
   bairro |-> info.bairro,
   lat |-> RoundHalfEven(info.lat + RandomNormal(5000, uLat), 10),
   lon |-> RoundHalfEven(info.lon + RandomNormal(5000, uLon), 10),
   altitude |-> info.altitude,
   vulnerabilidade |-> RoundHalfEven(info.vulnerabilidade, 10),
   densidade_pop |-> info.densidade_pop,
   chuva_mm |-> Rat(RoundHalfEven(chuva, 10), 100),
   mare_m |-> Rat(RoundHalfEven(mare, 10), 1000),
   ocorrencias |-> RandomPoisson(lambda_total, uPoisson),
   tipo_bairro |-> info.tipo]

\* lines 126-204: one iteration of the inner loop, from stream state s0:
\* the row, the stream state after it, its rate and its draws
GenRow(info, d, s0) ==
  LET extreme == RandomRand(RngAt(s0, 2)) < 50
      x == IF extreme THEN 1 ELSE 0
      b == info.bairro
  IN  Strict(GenChuva(MonthOf(d), RngAt(s0, 1), extreme, RngAt(s0, 3)), LAMBDA chuva :
        Strict(GenMare(DayOfYear(d), RngAt(s0, 3 + x)), LAMBDA mare :
          Strict(GenLambda(chuva, mare, info), LAMBDA lambda_total :
            [row |-> GenRowOf(info, d, chuva, mare, lambda_total,
                              RngAt(s0, 4 + x), RngAt(s0, 5 + x), RngAt(s0, 6 + x)),
             rng |-> RngAt(s0, 6 + x),
             lambda |-> lambda_total,
             draws |-> <<Draw("gamma", b, d), Draw("rand", b, d)>>
                       \o (IF extreme THEN <<Draw("uniform", b, d)>> ELSE <<>>)
                       \o <<Draw("normal_mare", b, d), Draw("poisson", b, d),
                            Draw("normal_lat", b, d), Draw("normal_lon", b, d)>>])))

\* the state of the loops after one more iteration
GenStep(dates, pair, acc) ==
  Strict(GenRow(GenBAIRROS_RECIFE[pair[1]], dates[pair[2]], acc.rng), LAMBDA r :
    [rows |-> Append(acc.rows, r.row),
     rng |-> r.rng,
     lambdas |-> Append(acc.lambdas, r.lambda),
     log |-> acc.log \o r.draws])

\* lines 115-204: the two loops, from the k-th visited pair on
RECURSIVE GenLoop(_, _, _, _)
GenLoop(dates, order, k, acc) ==
  IF k > Len(order) THEN acc
  ELSE Strict(acc, LAMBDA a : GenLoop(dates, order, k + 1, GenStep(dates, order[k], a)))

\* DataFrame.drop_duplicates(): the first of each group of equal rows is kept
DropDuplicates(rows) ==
  LET keep == SelectSeq([i \in 1..Len(rows) |-> i],
                        LAMBDA i : \A j \in 1..(i - 1) : rows[j] # rows[i])
  IN  [k \in 1..Len(keep) |-> rows[keep[k]]]

\* DataFrame.dropna(): rows holding a NaN are removed
DropNa(rows) == SelectSeq(rows, LAMBDA r : ~IsNaN(r.chuva_mm) /\ ~IsNaN(r.mare_m))

\* generate_data(n_days, seed) run on the day `hoje`: the table returned, the
\* rate of each row and the log of the stream (the seeding, then every draw)
generate_data(n_days, seed, hoje) ==
  Strict(DateRange(hoje, n_days), LAMBDA dates :
    Strict(GenLoopOrder(n_days), LAMBDA order :
      Strict(GenLoop(dates, order, 1,
                     [rows |-> <<>>, rng |-> RngSeed(seed), lambdas |-> <<>>,
                      log |-> <<Draw("seed", "", 0)>>]),
             LAMBDA acc :
               [df |-> DropNa(DropDuplicates(acc.rows)),
                lambdas |-> acc.lambdas,
                log |-> acc.log])))

(***************************************************************************)
(* The conversion pipeline (convert_real_to_synthetic_format.py).          *)
(*                                                                         *)
(* A tide file is [exists, rows]; a row is [Ano, Mes, Dia, alturas] with   *)
(* alturas the four "Mare i - Altura (m)" cells.  A rainfall file is       *)
(* [exists, cols, rows]: cols the day-of-month columns it has, a row       *)
(* [Posto, mes_nome, ano, dias] with dias the cells under cols.            *)
(*                                                                         *)
(* Series.fillna(..., inplace=True) on a column selected from a frame      *)
(* (lines 310, 391, 509, 510) fills the column of the frame, as pandas     *)
(* executes it before version 3.0.                                         *)
(***************************************************************************)
\* lines 300-305: the four readings of a row parsed, then their mean
MareRowMean(row) ==
  MeanSkipNa([i \in 1..Len(row.alturas) |-> parse_float_br(row.alturas[i])])

\* lines 308-310: the value that replaces a day without a valid reading
MareFillValue(col) == MeanSkipNa(col)

\* load_mare_data: [raised, df], df the rows (date, mare_m) in file order
load_mare_data(file) ==
  IF ~file.exists THEN [raised |-> TRUE, df |-> <<>>]
  ELSE IF \E i \in 1..Len(file.rows) :
            ~ValidDate(file.rows[i].Ano, file.rows[i].Mes, file.rows[i].Dia)
  THEN [raised |-> TRUE, df |-> <<>>]
  ELSE Strict([i \in 1..Len(file.rows) |-> MareRowMean(file.rows[i])], LAMBDA col :
         Strict(MareFillValue(col), LAMBDA media_mare :
           [raised |-> FALSE,
            df |-> [i \in 1..Len(file.rows) |->
                      [date |-> MkDate(file.rows[i].Ano, file.rows[i].Mes, file.rows[i].Dia),
                       mare_m |-> IF (\E j \in 1..Len(col) : IsNaN(col[j])) /\ IsNaN(col[i])
                                  THEN media_mare
                                  ELSE col[i]]]]))

\* lines 359-362: the month of a month name, 0 for an unknown one
Meses(mes_nome) ==
  CASE mes_nome = "jan." -> 1 [] mes_nome = "fev." -> 2 [] mes_nome = "mar." -> 3
    [] mes_nome = "abr." -> 4 [] mes_nome = "mai." -> 5 [] mes_nome = "jun." -> 6
    [] mes_nome = "jul." -> 7 [] mes_nome = "ago." -> 8 [] mes_nome = "set." -> 9
    [] mes_nome = "out." -> 10 [] mes_nome = "nov." -> 11 [] mes_nome = "dez." -> 12
    [] OTHER -> 0

\* lines 347-350: the rows of the stations that have a neighbourhood
ChuvaMapped(rows) == SelectSeq(rows, LAMBDA r : MapPosto(r.Posto) # "")

\* lines 352-353 raising whenever a station of the file has no neighbourhood
ChuvaRaisesOnUnmapped(rows) == ChuvaMapped(rows) # rows

\* lines 352-353: raise ValueError when no row is left
ChuvaRaises(rows) == ChuvaMapped(rows) = <<>>

\* line 391 left out: a missing value stays missing
ChuvaFillNaNone(v) == v

\* line 391: fillna(0.0)
ChuvaFillNa(v) == IF IsNaN(v) THEN Rat(0, 1) ELSE v

\* lines 369-391: one record per (day column, row), column-major as melt
\* orders them, parsed, dated, the invalid dates removed, the gaps filled
ChuvaMeltedRow(r, c, dia) ==
  [bairro |-> MapPosto(r.Posto),
   Posto |-> r.Posto,
   valid |-> ValidDate(r.ano, Meses(r.mes_nome), dia),
   date |-> MkDate(r.ano, Meses(r.mes_nome), dia),
   chuva_mm |-> ChuvaFillNa(parse_float_br(r.dias[c]))]

ChuvaMelted(cols, mapped) ==
  Strict(mapped, LAMBDA rows :
    SelectSeq([k \in 1..(Len(cols) * Len(rows)) |->
                 ChuvaMeltedRow(rows[((k - 1) % Len(rows)) + 1],
                                ((k - 1) \div Len(rows)) + 1,
                                cols[((k - 1) \div Len(rows)) + 1])],
              LAMBDA m : m.valid))

\* the keys of a set of (date, bairro) pairs in ascending order
RECURSIVE SortedKeys(_)
SortedKeys(S) ==
  Strict(S, LAMBDA T :
    IF T = {} THEN <<>>
    ELSE Strict(CHOOSE k \in T : \A o \in T : KeyLe(k[1], k[2], o[1], o[2]),
                LAMBDA k : <<k>> \o SortedKeys(T \ {k})))

\* lines 394-396: groupby(['date', 'bairro']).agg(mean), keys ascending
ChuvaGroupMean(melted, key) ==
  Strict(SelectSeq(melted, LAMBDA m : m.date = key[1] /\ m.bairro = key[2]), LAMBDA grp :
    [date |-> key[1],
     bairro |-> key[2],
     chuva_mm |-> MeanSkipNa([i \in 1..Len(grp) |-> grp[i].chuva_mm])])

ChuvaGrouped(melted) ==
  Strict(SortedKeys({<<melted[i].date, melted[i].bairro>> : i \in 1..Len(melted)}),
         LAMBDA keys : [j \in 1..Len(keys) |-> ChuvaGroupMean(melted, keys[j])])

\* load_chuva_data: [raised, df], df the rows (date, bairro, chuva_mm)
load_chuva_data(file) ==
  IF ~file.exists THEN [raised |-> TRUE, df |-> <<>>]
  ELSE IF ChuvaRaises(file.rows) THEN [raised |-> TRUE, df |-> <<>>]
  ELSE Strict(ChuvaMelted(file.cols, ChuvaMapped(file.rows)), LAMBDA melted :
         [raised |-> FALSE, df |-> ChuvaGrouped(melted)])

\* lines 423-438 with the last branch taken for the two urban types alone
\* and the factors left at 1.0 for any other type
ConvFatoresUrbanoOnly(tipo_bairro) ==
  IF tipo_bairro = "litoraneo" THEN [mare |-> 2500, chuva |-> 1200, vuln |-> 1800]
  ELSE IF tipo_bairro = "ribeirinho" THEN [mare |-> 1800, chuva |-> 2200, vuln |-> 2000]
  ELSE IF tipo_bairro = "altitude" THEN [mare |-> 100, chuva |-> 1500, vuln |-> 800]
  ELSE IF tipo_bairro \in {"urbano_denso", "urbano_medio"}
    THEN [mare |-> 800, chuva |-> 1800, vuln |-> 1500]
  ELSE [mare |-> 1000, chuva |-> 1000, vuln |-> 1000]

\* lines 423-438: the factors of a neighbourhood type, in 1e-3
ConvFatores(tipo_bairro) ==
  IF tipo_bairro = "litoraneo" THEN [mare |-> 2500, chuva |-> 1200, vuln |-> 1800]
  ELSE IF tipo_bairro = "ribeirinho" THEN [mare |-> 1800, chuva |-> 2200, vuln |-> 2000]
  ELSE IF tipo_bairro = "altitude" THEN [mare |-> 100, chuva |-> 1500, vuln |-> 800]
  ELSE [mare |-> 800, chuva |-> 1800, vuln |-> 1500]

\* line 442 without its condition: the term of a tide below 1.0 m is kept
ConvRiscoMareNormUnguarded(mare, mare_nan, risco_mare, fator_mare) ==
  IF mare_nan THEN 0 ELSE (mare - 10000) * 2 * risco_mare * (fator_mare \div 100)

\* line 442: ((mare_m - 1.0) / 0.5) * risco_mare * fator_mare if mare_m > 1.0
\* else 0, exact, in 1e-8; the comparison is False for a NaN tide
ConvRiscoMareNorm(mare, mare_nan, risco_mare, fator_mare) ==
  IF ~mare_nan /\ mare > 10000
  THEN (mare - 10000) * 2 * risco_mare * (fator_mare \div 100)
  ELSE 0

\* lines 441-454: lambda_total before the clamp, in 1e-3; chuva in 1e-3 mm,
\* mare in 1e-4 m, mare_nan when the tide of the row is NaN
ConvLambdaRaw(chuva, mare, mare_nan, vulnerabilidade, densidade_pop, risco_mare, risco_chuva, tipo_bairro) ==
  LET f == ConvFatores(tipo_bairro)
      risco_chuva_norm == ((((chuva \div 50) * risco_chuva) \div 1000) * f.chuva) \div 1000
      risco_mare_norm == ConvRiscoMareNorm(mare, mare_nan, risco_mare, f.mare) \div 100000
      risco_vuln_norm == (vulnerabilidade * f.vuln) \div 10000
      lambda_base == 500
      lambda_total ==
        lambda_base
        + (risco_chuva_norm * 400 + risco_mare_norm * 350 + risco_vuln_norm * 250) \div 1000
  IN  (lambda_total * DensPow(densidade_pop)) \div 1000

\* line 457: lambda_total = max(0, min(lambda_total, 15.0))
ConvLambdaClamp(lambda_total) == Max(0, Min(lambda_total, 15000))

\* lines 423-454: lambda_total of a row of df_base before the clamp; a NaN
\* rainfall makes it NaN
ConvLambdaTotal(row) ==
  IF IsNaN(row.chuva_mm) THEN NaN
  ELSE Rat(ConvLambdaRaw(ToFixed(row.chuva_mm, 1000),
                         IF IsNaN(row.mare_m) THEN 0 ELSE ToFixed(row.mare_m, 10000),
                         IsNaN(row.mare_m), row.vulnerabilidade, row.densidade_pop,
                         row.risco_mare, row.risco_chuva, row.tipo_bairro), 1000)

\* lines 423-457: the rate of a row of df_base, in 1e-3; min(nan, 15.0) is
\* nan and max(0, nan) is 0
ConvLambda(row) ==
  Strict(ConvLambdaTotal(row), LAMBDA lambda_total :
    IF IsNaN(lambda_total) THEN 0 ELSE ConvLambdaClamp(ToFixed(lambda_total, 1000)))

\* calculate_ocorrencias(row): one Poisson draw with raw value u
calculate_ocorrencias(row, u) == RandomPoisson(ConvLambda(row), u)

\* sorted(S) for a set of dates
RECURSIVE SortedDates(_)
SortedDates(S) ==
  Strict(S, LAMBDA T :
    IF T = {} THEN <<>>
    ELSE Strict(CHOOSE d \in T : \A o \in T : d <= o,
                LAMBDA d : <<d>> \o SortedDates(T \ {d})))

\* line 491: the dates of either table, ascending
ConvAllDates(df_mare, df_chuva) ==
  SortedDates({df_mare[i].date : i \in 1..Len(df_mare)}
              \cup {df_chuva[i].date : i \in 1..Len(df_chuva)})

\* lines 495-500: the grid, for date in all_dates: for bairro in all_bairros
ConvGrid(dates) ==
  Strict(dates, LAMBDA all_dates :
  [k \in 1..(Len(all_dates) * Len(ConvBAIRROS_RECIFE)) |->
     [date |-> all_dates[((k - 1) \div Len(ConvBAIRROS_RECIFE)) + 1],
      bairro |-> ConvBAIRROS_RECIFE[((k - 1) % Len(ConvBAIRROS_RECIFE)) + 1].bairro]])

\* the number of elements in the sequences before the k-th
FlattenOffset(v, k) ==
  Cardinality(UNION {{<<t, j>> : j \in 1..Len(v[t])} : t \in 1..(k - 1)})

\* the concatenation of a sequence of sequences
Flatten(ss) ==
  Strict(ss, LAMBDA v :
    Strict([k \in 1..(Len(v) + 1) |-> FlattenOffset(v, k)], LAMBDA off :
      [n \in 1..off[Len(v) + 1] |->
         Strict(CHOOSE k \in 1..Len(v) : off[k] < n /\ n <= off[k + 1],
                LAMBDA k : v[k][n - off[k]])]))


\* line 503: merge(df_mare, on='date', how='left'): a left row once per
\* matching tide row, in tide order, and once with NaN when none matches
ConvMergeMareRow(left, df_mare) ==
  Strict(SelectSeq(df_mare, LAMBDA t : t.date = left.date), LAMBDA ms :
    IF ms = <<>>
    THEN <<[date |-> left.date, bairro |-> left.bairro, mare_m |-> NaN]>>
    ELSE [i \in 1..Len(ms) |->
            [date |-> left.date, bairro |-> left.bairro, mare_m |-> ms[i].mare_m]])

ConvMergeMare(base, df_mare) ==
  Flatten([k \in 1..Len(base) |-> ConvMergeMareRow(base[k], df_mare)])

\* line 506: merge(df_chuva, on=['date', 'bairro'], how='left')
ConvMergeChuvaRow(left, df_chuva) ==
  Strict(SelectSeq(df_chuva, LAMBDA c : c.date = left.date /\ c.bairro = left.bairro),
         LAMBDA ms :
    IF ms = <<>>
    THEN <<[date |-> left.date, bairro |-> left.bairro,
            mare_m |-> left.mare_m, chuva_mm |-> NaN]>>
    ELSE [i \in 1..Len(ms) |->
            [date |-> left.date, bairro |-> left.bairro,
             mare_m |-> left.mare_m, chuva_mm |-> ms[i].chuva_mm]])

ConvMergeChuva(base, df_chuva) ==
  Flatten([k \in 1..Len(base) |-> ConvMergeChuvaRow(base[k], df_chuva)])

\* lines 509-510: the gaps filled, tide with the mean of df_mare, rain with 0
ConvFillNa(base, df_mare) ==
  Strict(MeanSkipNa([i \in 1..Len(df_mare) |-> df_mare[i].mare_m]), LAMBDA media :
    [k \in 1..Len(base) |->
       [date |-> base[k].date,
        bairro |-> base[k].bairro,
        mare_m |-> IF IsNaN(base[k].mare_m) THEN media ELSE base[k].mare_m,
        chuva_mm |-> IF IsNaN(base[k].chuva_mm) THEN Rat(0, 1) ELSE base[k].chuva_mm]])

\* lines 491-510: df_base after the two merges and the filling
ConvBase(df_mare, df_chuva) ==
  Strict(ConvGrid(ConvAllDates(df_mare, df_chuva)), LAMBDA grid :
    Strict(ConvMergeMare(grid, df_mare), LAMBDA withMare :
      Strict(ConvMergeChuva(withMare, df_chuva), LAMBDA withChuva :
        ConvFillNa(withChuva, df_mare))))

\* the positions of the rows of a neighbourhood (the mask of line 514)
ConvMask(base, bairro) ==
  SelectSeq([q \in 1..Len(base) |-> q], LAMBDA q : base[q].bairro = bairro)

\* lines 513-519: the jitter draws, neighbourhood by neighbourhood: n_rows
\* latitude draws, then n_rows longitude draws
RECURSIVE ConvJitterSchedule(_, _)
ConvJitterSchedule(base, i) ==
  IF i > Len(ConvBAIRROS_RECIFE) THEN <<>>
  ELSE Strict(ConvMask(base, ConvBAIRROS_RECIFE[i].bairro), LAMBDA mask :
         [j \in 1..Len(mask) |-> [kind |-> "normal_lat", pos |-> mask[j]]]
         \o [j \in 1..Len(mask) |-> [kind |-> "normal_lon", pos |-> mask[j]]]
         \o ConvJitterSchedule(base, i + 1))

\* line 532: df_base.apply(calculate_ocorrencias, axis=1): one draw per row,
\* in row order
ConvPoissonSchedule(base) == [q \in 1..Len(base) |-> [kind |-> "poisson", pos |-> q]]

\* every draw of merge_and_enrich_data, in the order it is taken
ConvSchedule(base) == ConvJitterSchedule(base, 1) \o ConvPoissonSchedule(base)

\* the states of the stream after 1, 2, ..., n draws
RngSeq(s, n) == Strict(s, LAMBDA s0 : [k \in 1..n |-> RngAt(s0, k)])

ConvInfo(bairro) ==
  ConvBAIRROS_RECIFE[CHOOSE i \in 1..Len(ConvBAIRROS_RECIFE) :
                        ConvBAIRROS_RECIFE[i].bairro = bairro]

\* the (date, bairro) key of every row, the neighbourhood by its rank
SortKeys(rows) ==
  [i \in 1..Len(rows) |-> <<rows[i].date, BairroRank(rows[i].bairro)>>]

\* the number of rows that a stable sort on the key puts before row i
SortRank(keys, i) ==
  Cardinality({j \in 1..Len(keys) :
     \/ keys[j][1] < keys[i][1]
     \/ /\ keys[j][1] = keys[i][1]
        /\ \/ keys[j][2] < keys[i][2]
           \/ keys[j][2] = keys[i][2] /\ j < i})

\* sort_values(['date', 'bairro']): a stable sort on the key
SortByKey(rows) ==
  Strict(rows, LAMBDA v :
    Strict(SortKeys(v), LAMBDA keys :
      Strict([i \in 1..Len(v) |-> SortRank(keys, i)], LAMBDA rank :
        [n \in 1..Len(v) |-> v[CHOOSE i \in 1..Len(v) : rank[i] = n - 1]])))

\* the columns of the standard table and their dtypes
RequiredCols ==
  <<"date", "bairro", "lat", "lon", "altitude", "vulnerabilidade",
    "densidade_pop", "chuva_mm", "mare_m", "ocorrencias", "tipo_bairro">>

ConvDtypes ==
  [c \in {RequiredCols[i] : i \in 1..Len(RequiredCols)} |->
     IF c = "date" THEN "datetime"
     ELSE IF c \in {"bairro", "tipo_bairro"} THEN "object"
     ELSE IF c \in {"altitude", "densidade_pop", "ocorrencias"} THEN "int"
     ELSE "float"]

\* lines 513-550: a row of df_base with its jitter, the attributes of its
\* neighbourhood and its occurrence count, rounded as lines 535-539 round
ConvRow(b, uLat, uLon, uPoisson) ==
  Strict(ConvInfo(b.bairro), LAMBDA info :
    Strict([chuva_mm |-> b.chuva_mm, mare_m |-> b.mare_m,
            vulnerabilidade |-> info.vulnerabilidade,
            densidade_pop |-> info.densidade_pop, tipo_bairro |-> info.tipo,
            risco_mare |-> info.risco_mare, risco_chuva |-> info.risco_chuva],
           LAMBDA row :
      [date |-> b.date,
       bairro |-> b.bairro,
       lat |-> RoundHalfEven(info.lat + RandomNormal(5000, uLat), 10),
       lon |-> RoundHalfEven(info.lon + RandomNormal(5000, uLon), 10),
       altitude |-> info.altitude,
       vulnerabilidade |-> RoundHalfEven(info.vulnerabilidade, 10),
       densidade_pop |-> info.densidade_pop,
       chuva_mm |-> RoundRat(b.chuva_mm, 100),
       mare_m |-> RoundRat(b.mare_m, 1000),
       ocorrencias |-> calculate_ocorrencias(row, uPoisson),
       tipo_bairro |-> info.tipo,
       lambda |-> ConvLambda(row)]))

\* for every row, the numbers of its three draws in the schedule
ConvDrawNos(sched, n) ==
  [q \in 1..n |->
     [lat |-> CHOOSE k \in 1..(2 * n) : sched[k].pos = q /\ sched[k].kind = "normal_lat",
      lon |-> CHOOSE k \in 1..(2 * n) : sched[k].pos = q /\ sched[k].kind = "normal_lon",
      poisson |-> 2 * n + q]]

\* the final table: the rows without the auxiliary columns, sorted
ConvFinal(rows) ==
  SortByKey([q \in 1..Len(rows) |->
     [date |-> rows[q].date, bairro |-> rows[q].bairro, lat |-> rows[q].lat,
      lon |-> rows[q].lon, altitude |-> rows[q].altitude,
      vulnerabilidade |-> rows[q].vulnerabilidade,
      densidade_pop |-> rows[q].densidade_pop, chuva_mm |-> rows[q].chuva_mm,
      mare_m |-> rows[q].mare_m, ocorrencias |-> rows[q].ocorrencias,
      tipo_bairro |-> rows[q].tipo_bairro]])

\* lines 513-553 on df_base
ConvEnrich(base, seed) ==
  Strict(ConvSchedule(base), LAMBDA sched :
    Strict(RngSeq(RngSeed(seed), Len(sched)), LAMBDA us :
      Strict([q \in 1..Len(base) |->
                Strict(ConvDrawNos(sched, Len(base))[q], LAMBDA no :
                  ConvRow(base[q], us[no.lat], us[no.lon], us[no.poisson]))],
             LAMBDA rows :
        [raised |-> FALSE,
         df |-> [cols |-> {RequiredCols[i] : i \in 1..Len(RequiredCols)},
                 dtype |-> ConvDtypes,
                 rows |-> ConvFinal(rows)],
         lambdas |-> [q \in 1..Len(rows) |-> rows[q].lambda],
         log |-> <<Draw("seed", "", 0)>>
                 \o [k \in 1..Len(sched) |->
                       Draw(sched[k].kind, base[sched[k].pos].bairro,
                            base[sched[k].pos].date)]])))

\* merge_and_enrich_data(df_mare, df_chuva, seed): [raised, df, lambdas, log];
\* df is [cols, dtype, rows], log the seeding and then every draw
merge_and_enrich_data(df_mare, df_chuva, seed) ==
  IF ConvAllDates(df_mare, df_chuva) = <<>>
  THEN [raised |-> TRUE, df |-> [cols |-> {}, dtype |-> ConvDtypes, rows |-> <<>>],
        lambdas |-> <<>>, log |-> <<Draw("seed", "", 0)>>]
  ELSE Strict(ConvBase(df_mare, df_chuva), LAMBDA base : ConvEnrich(base, seed))

\* an entry of the error list of validate_dataframe
ValErr(kind, cols, count) == [kind |-> kind, cols |-> cols, count |-> count]

\* df.duplicated(subset=['date', 'bairro']).sum()
\* (the rows that are not the first with their key)
CountDuplicated(rows) ==
  Len(rows) - Cardinality({<<rows[i].date, rows[i].bairro>> : i \in 1..Len(rows)})

\* the columns of a row that hold a NaN
NullCols(rows) ==
  SelectSeq(<<"chuva_mm", "mare_m">>,
            LAMBDA c : \E i \in 1..Len(rows) :
                          IF c = "chuva_mm" THEN IsNaN(rows[i].chuva_mm) ELSE IsNaN(rows[i].mare_m))

\* line 590 with only the first missing column reported
ValMissingColsFirst(cols) ==
  IF SelectSeq(RequiredCols, LAMBDA c : c \notin cols) = <<>> THEN <<>>
  ELSE <<Head(SelectSeq(RequiredCols, LAMBDA c : c \notin cols))>>

\* line 590: [col for col in required_cols if col not in df.columns]
ValMissingCols(cols) == SelectSeq(RequiredCols, LAMBDA c : c \notin cols)

\* lines 607, 612, 617 with the limits themselves counted as outside
ValOutOfRangeOnLimits(v, lo, hi) == v <= lo \/ v >= hi

\* lines 607, 612, 617: (df[col] < lo) | (df[col] > hi), for one cell
ValOutOfRange(v, lo, hi) == v < lo \/ v > hi

\* lines 606-619: the comparisons df[col] < lo raise TypeError on a column
\* that is present and whose cells are not numbers
ValRangeRaises(df) ==
  \E c \in {"vulnerabilidade", "lat", "lon"} :
     c \in df.cols /\ df.dtype[c] \notin {"float", "int"}

\* validate_dataframe(df): (is_valid, errors), or raised when a comparison
\* raises; lat, lon of the rows in 1e-6 degrees, vulnerabilidade in 1e-3.
\* A dtype of "object" is a column of strings, "datetime" one of timestamps.
validate_dataframe(df) ==
  LET rows == df.rows
      has(c) == c \in df.cols
      missing_cols == ValMissingCols(df.cols)
      eMissing == IF missing_cols # <<>>
                  THEN <<ValErr("Colunas ausentes", missing_cols, Len(missing_cols))>>
                  ELSE <<>>
      eDate == IF has("date") /\ df.dtype["date"] # "datetime"
               THEN <<ValErr("deve ser datetime", <<"date">>, 1)>>
               ELSE <<>>
      numeric == SelectSeq(<<"lat", "lon", "vulnerabilidade", "chuva_mm", "mare_m">>,
                           LAMBDA c : has(c) /\ df.dtype[c] \notin {"float", "int"})
      eNumeric == [i \in 1..Len(numeric) |-> ValErr("deve ser numerica", <<numeric[i]>>, 1)]
      integer == SelectSeq(<<"altitude", "densidade_pop", "ocorrencias">>,
                           LAMBDA c : has(c) /\ df.dtype[c] # "int")
      eInteger == [i \in 1..Len(integer) |-> ValErr("deve ser inteira", <<integer[i]>>, 1)]
      invalid_vuln == Cardinality({i \in 1..Len(rows) :
                                     ValOutOfRange(rows[i].vulnerabilidade, 0, 1000)})
      eVuln == IF has("vulnerabilidade") /\ invalid_vuln > 0
               THEN <<ValErr("fora do range", <<"vulnerabilidade">>, invalid_vuln)>>
               ELSE <<>>
      invalid_lat == Cardinality({i \in 1..Len(rows) :
                                    ValOutOfRange(rows[i].lat, -8200000, -7900000)})
      eLat == IF has("lat") /\ invalid_lat > 0
              THEN <<ValErr("fora do range", <<"lat">>, invalid_lat)>>
              ELSE <<>>
      invalid_lon == Cardinality({i \in 1..Len(rows) :
                                    ValOutOfRange(rows[i].lon, -35000000, -34800000)})
      eLon == IF has("lon") /\ invalid_lon > 0
              THEN <<ValErr("fora do range", <<"lon">>, invalid_lon)>>
              ELSE <<>>
      duplicates == CountDuplicated(rows)
      eDup == IF has("date") /\ has("bairro") /\ duplicates > 0
              THEN <<ValErr("registros duplicados", <<"date", "bairro">>, duplicates)>>
              ELSE <<>>
      null_cols == SelectSeq(NullCols(rows), has)
      eNull == IF null_cols # <<>>
               THEN <<ValErr("Valores ausentes", null_cols, Len(null_cols))>>
               ELSE <<>>
      errors == eMissing \o eDate \o eNumeric \o eInteger \o eVuln \o eLat \o eLon \o eDup \o eNull
  IN  IF ValRangeRaises(df)
      THEN [raised |-> TRUE, is_valid |-> FALSE, errors |-> <<>>]
      ELSE [raised |-> FALSE, is_valid |-> Len(errors) = 0, errors |-> errors]

\* main() going on to save whatever validate_dataframe returned
MainSavesAlways(is_valid_) == TRUE

\* lines 764-766: main() goes on to save only when is_valid
MainSaves(is_valid_) == is_valid_

\* save_converted_data: the file at output_path after the call
save_converted_data(df) == [exists |-> TRUE, rows |-> df.rows]

(***************************************************************************)
(* The dashboard (dashboard/config.py, dashboard/utils.py).  A probability *)
(* is held in 1e-3.                                                        *)
(***************************************************************************)
\* config.py, lines 6-10
RISK_THRESHOLDS == [low |-> 500, moderate |-> 700, high |-> 1000]

\* get_risk_level with >= in place of > at both cut points
get_risk_level_inclusive(probability) ==
  IF probability >= 700 THEN "RISCO ALTO"
  ELSE IF probability >= 500 THEN "RISCO MODERADO"
  ELSE "RISCO BAIXO"

\* utils.py, lines 175-198: the 'level' of the dictionary returned
get_risk_level(probability) ==
  IF probability > 700 THEN "RISCO ALTO"
  ELSE IF probability > 500 THEN "RISCO MODERADO"
  ELSE "RISCO BAIXO"

(***************************************************************************)
(* src/models/train_models.py: the files the script leaves behind.  A file *)
(* system is a function from file names to contents, Absent for a name     *)
(* with no file.                                                           *)
(***************************************************************************)
Absent == "absent"

Exists(fs, name) == fs[name] # Absent

WriteTargets == {"app.py", "map_generated.html", "map_view.html"}

\* lines 175-181 without the test of out_path.exists()
write_dashboard_app_overwriting(fs) == [fs EXCEPT !["app.py"] = "dashboard_app"]

\* write_dashboard_app(repo_root): the file system it leaves
write_dashboard_app(fs) ==
  IF ~Exists(fs, "app.py") THEN [fs EXCEPT !["app.py"] = "dashboard_app"] ELSE fs

\* write_map_html(repo_root): folium is None when its import failed, and
\* folium.Map then raises before anything is written
write_map_html(fs, has_folium) ==
  IF ~Exists(fs, "map_generated.html") /\ ~has_folium
  THEN [raised |-> TRUE, files |-> fs]
  ELSE LET fs1 == IF ~Exists(fs, "map_generated.html")
                  THEN [fs EXCEPT !["map_generated.html"] = "folium_map"]
                  ELSE fs
           fs2 == IF ~Exists(fs1, "map_view.html")
                  THEN [fs1 EXCEPT !["map_view.html"] = "map_wrapper"]
                  ELSE fs1
       IN  [raised |-> FALSE, files |-> fs2]

\* lines 57-63: the files train_and_save_models writes
TrainWrites == {"linear_regression_occ.joblib", "logistic_risk.joblib", "features_list.joblib"}

\* app.py lines 310-313: the files load_models reads, in this order
LoadReads ==
  <<"linear_regression_occ.joblib", "logistic_risk.joblib", "features_regression.joblib",
    "features_classification.joblib">>

ModelFiles == TrainWrites \cup {LoadReads[i] : i \in 1..Len(LoadReads)}

\* train_and_save_models(csv_path, models_dir) on a readable table: it
\* raises without scikit-learn or joblib, else it dumps its three files
train_and_save_models(fs, mods) ==
  IF "sklearn" \notin mods \/ "joblib" \notin mods THEN [raised |-> TRUE, files |-> fs]
  ELSE [raised |-> FALSE,
        files |-> [f \in DOMAIN fs |-> IF f \in TrainWrites THEN "trained" ELSE fs[f]]]

\* load_models(): the four loads in a try; any exception gives the
\* result (None, None, None, None)
load_models(fs, mods) ==
  IF "joblib" \in mods /\ \A i \in 1..Len(LoadReads) : Exists(fs, LoadReads[i])
  THEN [error |-> FALSE, loaded |-> [i \in 1..Len(LoadReads) |-> fs[LoadReads[i]]]]
  ELSE [error |-> TRUE, loaded |-> <<>>]

(***************************************************************************)
(* src/dashboard/sync_bairros_from_geojson.py.  A name is a sequence of    *)
(* characters; an accented letter is the letter followed by its mark, as   *)
(* in the NFKD form ("'" for the acute accent, "~" for the tilde).  A      *)
(* centroid coordinate is a cell: None, NaN or a number.  A CSV file is    *)
(* [exists, header, rows]; an empty cell of the file reads back as NaN.    *)
(***************************************************************************)
CombiningMarks == {"'", "~"}

StrUpper(c) ==
  CASE c = "s" -> "S" [] c = "e" -> "E" [] c = "p" -> "P" [] c = "a" -> "A" [] OTHER -> c

\* _remove_accents(x).upper()
GeoNormalise(s) ==
  LET bare == SelectSeq(s, LAMBDA c : c \notin CombiningMarks)
  IN  [i \in 1..Len(bare) |-> StrUpper(bare[i])]

PyNone == [k |-> "none", v |-> Rat(0, 1)]

PyNaN == [k |-> "nan", v |-> Rat(0, 1)]

PyNum(r) == [k |-> "num", v |-> r]

\* a != b on None, NaN and floats
PyNe(a, b) ==
  IF a.k = "nan" \/ b.k = "nan" THEN TRUE
  ELSE IF a.k = "none" \/ b.k = "none" THEN a.k # b.k
  ELSE ~RatEq(a.v, b.v)

\* _geojson_centroid(feature): the means of the latitudes and of the
\* longitudes of all the points, (None, None) without a point
GeoCentroid(coords) ==
  IF coords = <<>> THEN [lat |-> PyNone, lon |-> PyNone]
  ELSE [lat |-> PyNum(MeanOf([i \in 1..Len(coords) |-> Rat(coords[i].lat, 1)])),
        lon |-> PyNum(MeanOf([i \in 1..Len(coords) |-> Rat(coords[i].lon, 1)]))]

\* lines 54-74 with no feature ever reported
GeoBadNone(features) == <<>>

\* lines 54-62: the features without a name (missing or empty)
GeoBad(features) == SelectSeq(features, LAMBDA f : f.name = <<>>)

\* pd.DataFrame(extracted) read row by row: a None among numbers of the
\* same column has become NaN
GeoFrame(features) ==
  LET allNone == \A i \in 1..Len(features) : features[i].coords = <<>>
      cell(c) == IF c.k = "none" /\ ~allNone THEN PyNaN ELSE c
  IN  [i \in 1..Len(features) |->
         LET c == GeoCentroid(features[i].coords)
         IN  [bairro |-> features[i].name, lat_centroid |-> cell(c.lat),
              lon_centroid |-> cell(c.lon),
              bairro_upper |-> GeoNormalise(features[i].name)]]

NoCsv == [exists |-> FALSE, header |-> FALSE, rows |-> <<>>]

\* pd.read_csv(bairros_csv) and lines 85-86; an absent file gives the
\* empty frame of line 82
SyncReadDb(file) ==
  [i \in 1..Len(file.rows) |->
     [bairro |-> file.rows[i].bairro, lat_centroid |-> file.rows[i].lat_centroid,
      lon_centroid |-> file.rows[i].lon_centroid, source |-> file.rows[i].source,
      keyed |-> TRUE, bairro_upper |-> GeoNormalise(file.rows[i].bairro)]]

\* float(cell) if pd.notna(cell) else None
SyncOld(cell) == IF cell.k = "num" THEN cell ELSE PyNone

\* lines 98-107: the appended row has no bairro_upper (NaN after concat)
SyncAdd(row) ==
  [bairro |-> row.bairro, lat_centroid |-> row.lat_centroid,
   lon_centroid |-> row.lon_centroid, source |-> "geojson-sync",
   keyed |-> FALSE, bairro_upper |-> <<>>]

\* lines 96-127: one iteration of the loop, on st = [db, audit]
SyncStep(st, row) ==
  LET match == {i \in 1..Len(st.db) :
                  st.db[i].keyed /\ st.db[i].bairro_upper = row.bairro_upper}
  IN  IF match = {}
      THEN [db |-> Append(st.db, SyncAdd(row)),
            audit |-> Append(st.audit, [action |-> "add_bairro", bairro |-> row.bairro])]
      ELSE LET idx == CHOOSE i \in match : \A j \in match : i <= j
               old_lat == SyncOld(st.db[idx].lat_centroid)
               old_lon == SyncOld(st.db[idx].lon_centroid)
           IN  IF PyNe(old_lat, row.lat_centroid) \/ PyNe(old_lon, row.lon_centroid)
               THEN [db |-> [st.db EXCEPT ![idx].lat_centroid = row.lat_centroid,
                                          ![idx].lon_centroid = row.lon_centroid,
                                          ![idx].source = "geojson-sync"],
                     audit |-> Append(st.audit, [action |-> "update_centroid",
                                                 bairro |-> row.bairro])]
               ELSE st

RECURSIVE SyncLoop(_, _, _)
SyncLoop(df_geo, i, st) ==
  IF i > Len(df_geo) THEN st
  ELSE Strict(SyncStep(st, df_geo[i]), LAMBDA s : SyncLoop(df_geo, i + 1, s))

\* df.to_csv: None and NaN are written as empty cells
CsvCell(c) == IF c.k = "num" THEN c ELSE PyNaN

\* lines 130-135
SyncWriteDb(db) ==
  [exists |-> TRUE, header |-> TRUE,
   rows |-> [i \in 1..Len(db) |->
               [bairro |-> db[i].bairro, lat_centroid |-> CsvCell(db[i].lat_centroid),
                lon_centroid |-> CsvCell(db[i].lon_centroid), source |-> db[i].source]]]

\* lines 138-146: a frame without rows and without a previous file is
\* written without a header, and pd.read_csv raises on such a file
SyncWriteAudit(file, audit_rows) ==
  IF file.exists /\ ~file.header THEN [raised |-> TRUE, file |-> file]
  ELSE [raised |-> FALSE,
        file |-> [exists |-> TRUE, header |-> file.header \/ audit_rows # <<>>,
                  rows |-> file.rows \o audit_rows]]

\* sync_bairros_from_geojson(geojson_path, bairros_csv, audit_csv) on an
\* existing GeoJSON: whether it raised and the files it leaves
sync_bairros_from_geojson(features, fs, with_audit) ==
  IF GeoBad(features) # <<>> \/ features = <<>> THEN [raised |-> TRUE, files |-> fs]
  ELSE LET st == SyncLoop(GeoFrame(features), 1,
                          [db |-> SyncReadDb(fs["bairros.csv"]), audit |-> <<>>])
           fs1 == [fs EXCEPT !["bairros.csv"] = SyncWriteDb(st.db)]
           a == SyncWriteAudit(fs["audit.csv"], st.audit)
       IN  IF ~with_audit THEN [raised |-> FALSE, files |-> fs1]
           ELSE [raised |-> a.raised, files |-> [fs1 EXCEPT !["audit.csv"] = a.file]]

(***************************************************************************)
(* src/dashboard/validation.py.  An input is [num, v]: num is the test     *)
(* isinstance(value, (int, float)) (isinstance(value, int) for the month), *)
(* v the value, in tenths for rainfall, tide and vulnerability.  A message *)
(* is the sequence of its words, without accents.                          *)
(***************************************************************************)
NoMsg == <<>>

\* 'ajustada' in m
MsgContains(m, word) == \E i \in 1..Len(m) : m[i] = word

\* validate_input_rainfall(value)
validate_input_rainfall(value) ==
  IF ~value.num
  THEN [valid |-> FALSE, msg |-> <<"Precipitacao", "deve", "ser", "numerica">>, corrected |-> 0]
  ELSE IF value.v < 0
  THEN [valid |-> FALSE, msg |-> <<"Precipitacao", "nao", "pode", "ser", "negativa">>,
        corrected |-> 0]
  ELSE IF value.v > 2000
  THEN [valid |-> TRUE,
        msg |-> <<"Precipitacao", "ajustada", "para", "maximo", "(200.0mm)">>,
        corrected |-> 2000]
  ELSE [valid |-> TRUE, msg |-> NoMsg, corrected |-> value.v]

\* validate_input_tide(value)
validate_input_tide(value) ==
  IF ~value.num
  THEN [valid |-> FALSE, msg |-> <<"Mare", "deve", "ser", "numerica">>, corrected |-> 0]
  ELSE IF value.v < 0
  THEN [valid |-> FALSE, msg |-> <<"Mare", "nao", "pode", "ser", "negativa">>, corrected |-> 0]
  ELSE IF value.v > 30
  THEN [valid |-> TRUE, msg |-> <<"Mare", "ajustada", "para", "maximo", "(3.0m)">>,
        corrected |-> 30]
  ELSE [valid |-> TRUE, msg |-> NoMsg, corrected |-> value.v]

\* validate_input_vulnerability(value)
validate_input_vulnerability(value) ==
  IF ~value.num
  THEN [valid |-> FALSE, msg |-> <<"Vulnerabilidade", "deve", "ser", "numerica">>,
        corrected |-> 5]
  ELSE IF value.v < 0 \/ value.v > 10
  THEN [valid |-> TRUE,
        msg |-> <<"Vulnerabilidade", "ajustada", "para", "range", "[0,", "1]">>,
        corrected |-> Max(0, Min(value.v, 10))]
  ELSE [valid |-> TRUE, msg |-> NoMsg, corrected |-> value.v]

\* validate_input_month(value)
validate_input_month(value) ==
  IF ~value.num
  THEN [valid |-> FALSE, msg |-> <<"Mes", "deve", "ser", "inteiro">>, corrected |-> 1]
  ELSE IF value.v < 1 \/ value.v > 12
  THEN [valid |-> TRUE, msg |-> <<"Mes", "ajustado", "para", "range", "[1,", "12]">>,
        corrected |-> Max(1, Min(value.v, 12))]
  ELSE [valid |-> TRUE, msg |-> NoMsg, corrected |-> value.v]

\* lines 331-352: the messages of the validators that failed or adjusted,
\* each after its label
InputMessages(parts) ==
  LET one(label, r) == IF ~r.valid \/ r.msg # NoMsg THEN <<<<label>> \o r.msg>> ELSE <<>>
  IN  one("Precipitacao:", parts.chuva) \o one("Mare:", parts.mare)
        \o one("Vulnerabilidade:", parts.vulnerabilidade) \o one("Mes:", parts.mes)

\* validate_all_inputs(chuva, mare, vulnerabilidade, mes); parts are the
\* four tuples the validators returned
validate_all_inputs(chuva, mare, vulnerabilidade, mes) ==
  LET parts == [chuva |-> validate_input_rainfall(chuva), mare |-> validate_input_tide(mare),
                vulnerabilidade |-> validate_input_vulnerability(vulnerabilidade),
                mes |-> validate_input_month(mes)]
      messages == InputMessages(parts)
  IN  [valid |-> \A i \in 1..Len(messages) : MsgContains(messages[i], "ajustada"),
       messages |-> messages, parts |-> parts]

(***************************************************************************)
(* src/dashboard/utils.py and data_processing.py: the composite risk       *)
(* score and the ranking of the neighbourhoods.  Scores, weights and the   *)
(* aggregated columns are exact rationals.                                 *)
(***************************************************************************)
\* config.py RISK_WEIGHTS; both functions spell out the same default weights
RISK_WEIGHTS ==
  [occurrences |-> Rat(4, 10), vulnerability |-> Rat(3, 10), rainfall |-> Rat(2, 10),
   tide |-> Rat(1, 10)]

\* calculate_risk_score(ocorrencias, vulnerabilidade, chuva_mm, mare_m, weights)
calculate_risk_score(ocorrencias, vulnerabilidade, chuva_mm, mare_m, weights) ==
  RatAdd(RatAdd(RatAdd(RatMul(ocorrencias, weights.occurrences),
                       RatMul(RatMul(vulnerabilidade, Rat(100, 1)), weights.vulnerability)),
                RatMul(chuva_mm, weights.rainfall)),
         RatMul(RatMul(mare_m, Rat(10, 1)), weights.tide))

\* lines 87-92: groupby('bairro').agg(sum, first, mean, mean) for one key
RankStats(df, bairro) ==
  Strict(SelectSeq(df, LAMBDA r : r.bairro = bairro), LAMBDA grp :
    [bairro |-> bairro,
     ocorrencias |-> SumSeq([i \in 1..Len(grp) |-> Rat(grp[i].ocorrencias, 1)]),
     vulnerabilidade |-> grp[1].vulnerabilidade,
     chuva_mm |-> MeanOf([i \in 1..Len(grp) |-> grp[i].chuva_mm]),
     mare_m |-> MeanOf([i \in 1..Len(grp) |-> grp[i].mare_m])])

\* the groups, in the ascending order of their keys
RankGroups(df) ==
  Strict(SelectSeq(BairroOrder, LAMBDA b : \E i \in 1..Len(df) : df[i].bairro = b),
         LAMBDA keys : [k \in 1..Len(keys) |-> RankStats(df, keys[k])])

\* lines 94-99
RankScore(s, weights) ==
  RatAdd(RatAdd(RatAdd(RatMul(s.ocorrencias, weights.occurrences),
                       RatMul(RatMul(s.vulnerabilidade, Rat(100, 1)), weights.vulnerability)),
                RatMul(s.chuva_mm, weights.rainfall)),
         RatMul(RatMul(s.mare_m, Rat(10, 1)), weights.tide))

\* line 100 with the default ascending=True
RankBeforeAscending(scores, j, i) ==
  RatLt(scores[j], scores[i]) \/ (RatEq(scores[j], scores[i]) /\ j < i)

\* sort_values('risk_score', ascending=False): does group j come before
\* group i (groups of equal score keep their order)
RankBefore(scores, j, i) ==
  RatLt(scores[i], scores[j]) \/ (RatEq(scores[j], scores[i]) /\ j < i)

\* calculate_risk_ranking(df, weights)
calculate_risk_ranking(df, weights) ==
  Strict(RankGroups(df), LAMBDA stats :
    Strict([i \in 1..Len(stats) |-> RankScore(stats[i], weights)], LAMBDA scores :
      Strict([i \in 1..Len(stats) |->
                Cardinality({j \in 1..Len(stats) : RankBefore(scores, j, i)})],
             LAMBDA pos :
        [n \in 1..Len(stats) |->
           LET i == CHOOSE i \in 1..Len(stats) : pos[i] = n - 1
           IN  [bairro |-> stats[i].bairro, ocorrencias |-> stats[i].ocorrencias,
                vulnerabilidade |-> stats[i].vulnerabilidade,
                chuva_mm |-> stats[i].chuva_mm, mare_m |-> stats[i].mare_m,
                risk_score |-> scores[i], rank |-> n]])))

(***************************************************************************)
(* The inputs the model draws from.                                        *)
(***************************************************************************)
\* --seed: the default and the value of the usage example
Seeds == {42, 123}

\* the day on which a behaviour starts
StartDays == {20260301, 20261015}

\* the day on which the conversion script runs
ConvDay == MkDate(2026, 10, 15)

Missing == <<"-">>

\* the readings of one tide row
MareAlturas ==
  { <<Missing, Missing, Missing, Missing>>,
    <<<<"1", ",", "0">>, Missing, Missing, Missing>>,
    <<<<"2", ",", "0">>, <<"2", ",", "0">>, <<"2", ",", "0">>, NullCell>>,
    <<<<"1", ",", "8">>, <<"x">>, <<>>, <<"0", ",", "6">>>> }

\* the tide rows of the files main() reads
PipeMareRowSet ==
  { [Ano |-> 2024, Mes |-> 2, Dia |-> 15,
     alturas |-> <<<<"1", ",", "8">>, <<"1", ",", "2">>, Missing, NullCell>>],
    [Ano |-> 2024, Mes |-> 2, Dia |-> 16,
     alturas |-> <<<<"2", ",", "0">>, Missing, Missing, Missing>>],
    [Ano |-> 2024, Mes |-> 2, Dia |-> 16,
     alturas |-> <<Missing, Missing, Missing, Missing>>] }

MareRowsOf(dates, alturas) ==
  {[Ano |-> YearOf(d), Mes |-> MonthOf(d), Dia |-> DayOf(d), alturas |-> a] :
     d \in dates, a \in alturas}

SeqsUpTo(S, n) == UNION {[1..k -> S] : k \in 0..n}

MareFilesOf(rowset, n) ==
  {[exists |-> TRUE, rows |-> r] : r \in SeqsUpTo(rowset, n)}
  \cup {[exists |-> FALSE, rows |-> <<>>]}

MareFiles == MareFilesOf(MareRowsOf({20240215, 20240216, 20240217}, MareAlturas), MaxMareRows)

PipeMareFiles == MareFilesOf(PipeMareRowSet, PipeMareRows)

\* the day columns of the rainfall files
ChuvaCols == <<15, 31>>

ChuvaDias ==
  { <<<<"2", "5", ",", "4">>, Missing>>,
    <<<<"1", "0">>, <<"x">>>>,
    <<NullCell, <<"3", ",", "5">>>> }

\* the rainfall rows of the files main() reads
PipeChuvaRowSet ==
  { [Posto |-> "Recife (Alto da Brasileira)", mes_nome |-> "fev.", ano |-> 2024,
     dias |-> <<<<"2", "5", ",", "4">>, Missing>>],
    [Posto |-> "Olinda", mes_nome |-> "fev.", ano |-> 2024,
     dias |-> <<NullCell, <<"3", ",", "5">>>>],
    [Posto |-> "Vitoria de Santo Antao", mes_nome |-> "fev.", ano |-> 2024,
     dias |-> <<<<"1", "0">>, Missing>>] }

ChuvaRowsOf(postos, meses, dias) ==
  {[Posto |-> p, mes_nome |-> m, ano |-> 2024, dias |-> d] :
     p \in postos, m \in meses, d \in dias}

ChuvaFilesOf(rowset, n) ==
  {[exists |-> TRUE, cols |-> ChuvaCols, rows |-> r] : r \in SeqsUpTo(rowset, n)}
  \cup {[exists |-> FALSE, cols |-> ChuvaCols, rows |-> <<>>]}

ChuvaFiles ==
  ChuvaFilesOf(ChuvaRowsOf({"Recife (Alto da Brasileira)", "Olinda", "Olinda (Alto da Bondade)",
                            "Vitoria de Santo Antao"},
                           {"jan.", "fev."}, ChuvaDias),
               MaxChuvaRows)

PipeChuvaFiles == ChuvaFilesOf(PipeChuvaRowSet, PipeChuvaRows)

\* the days the clock can show to the generator
RECURSIVE DaysLater(_, _)
DaysLater(d, k) == IF k = 0 THEN d ELSE NextDay(DaysLater(d, k - 1))

GenDays == {DaysLater(d, k) : d \in StartDays, k \in 0..MaxTicks}

\* generate_data on every input of the model
GenTable ==
  [n_days \in 1..MaxDays, seed \in Seeds, hoje \in GenDays |->
     generate_data(n_days, seed, hoje)]

\* the file at the output path before main() runs: none, or an older one
OutFiles == {[exists |-> FALSE, rows |-> <<>>], [exists |-> TRUE, rows |-> <<>>]}

(***************************************************************************)
(* The state.                                                              *)
(***************************************************************************)
VARIABLES
  pc,             \* position of main(); "idle" before it starts
  prog,           \* the script of this behaviour: "gen" or "conv"
  today,          \* pd.Timestamp.today().normalize(), the wall clock's day
  ticks,          \* days the clock has advanced
  genRuns,        \* the calls of generate_data so far: seed, n_days, table
  drawLog,        \* the stream of the last run: the seeding and every draw
  lambdas,        \* the Poisson rates of the last run, in draw order
  args,           \* the command line of main()
  mareFile,       \* the tide file on disk
  chuvaFile,      \* the rainfall file on disk
  df_mare,        \* main(): the result of load_mare_data
  df_chuva,       \* main(): the result of load_chuva_data
  df_final,       \* main(): the result of merge_and_enrich_data
  validated,      \* main(): validate_dataframe has returned
  is_valid,       \* main(): what it returned
  errors,
  raised,         \* main(): a step raised, the except block ran
  outFile,        \* the file at the output path
  outFileBefore,  \* that file when main() started
  saveCalls,      \* calls of save_converted_data
  ret,            \* main()'s return value, -1 while it runs
  call,           \* a function called on its own: its name and arguments
  result,         \* what that call returned
  files,          \* the files the other scripts read and write, by name
  modules         \* the optional packages whose import succeeded

vars ==
  <<pc, prog, today, ticks, genRuns, drawLog, lambdas, args, mareFile, chuvaFile, df_mare,
    df_chuva, df_final, validated, is_valid, errors, raised, outFile, outFileBefore,
    saveCalls, ret, call, result, files, modules>>

genVars == <<today, ticks, genRuns>>

mainVars ==
  <<args, mareFile, chuvaFile, df_mare, df_chuva, df_final, validated, is_valid, errors,
    raised, outFile, outFileBefore, saveCalls, ret>>

pureVars == <<call, result>>

envVars == <<files, modules>>

EmptyFrame == [cols |-> {}, dtype |-> ConvDtypes, rows |-> <<>>]

NoFile == [exists |-> FALSE, rows |-> <<>>]

NoChuvaFile == [exists |-> FALSE, cols |-> ChuvaCols, rows |-> <<>>]

NoCall == [fn |-> "none"]

NoFiles == <<>>

OptionalModules == {"sklearn", "joblib", "folium"}

InitMain ==
  /\ ticks = 0
  /\ genRuns = <<>>
  /\ drawLog = <<>>
  /\ lambdas = <<>>
  /\ args = [seed |-> 42]
  /\ df_mare = <<>>
  /\ df_chuva = <<>>
  /\ df_final = EmptyFrame
  /\ validated = FALSE
  /\ is_valid = FALSE
  /\ errors = <<>>
  /\ raised = FALSE
  /\ outFile = NoFile
  /\ outFileBefore = NoFile
  /\ saveCalls = 0
  /\ ret = -1

InitCommon ==
  /\ InitMain
  /\ files = NoFiles
  /\ modules = OptionalModules
  /\ call = NoCall
  /\ result = NoCall

\* a behaviour runs one of the two scripts; only the generator reads the clock
Init ==
  /\ InitCommon
  /\ pc = "idle"
  /\ \/ prog = "gen" /\ today \in StartDays
     \/ prog = "conv" /\ today = ConvDay
  /\ mareFile = NoFile
  /\ chuvaFile = NoChuvaFile

(***************************************************************************)
(* The generator script.                                                   *)
(***************************************************************************)
\* a day passes between two runs of the generator
ClockTick ==
  /\ pc = "idle"
  /\ prog = "gen"
  /\ ticks < MaxTicks
  /\ today' = NextDay(today)
  /\ ticks' = ticks + 1
  /\ UNCHANGED <<pc, prog, genRuns, drawLog, lambdas>>
  /\ UNCHANGED mainVars
  /\ UNCHANGED pureVars
  /\ UNCHANGED envVars

\* generate_data(n_days, seed)
GenerateData ==
  /\ pc = "idle"
  /\ prog = "gen"
  /\ Len(genRuns) < MaxRuns
  /\ \E n_days \in 1..MaxDays, seed \in Seeds :
       LET r == GenTable[n_days, seed, today]
       IN  /\ genRuns' = Append(genRuns, [seed |-> seed, n_days |-> n_days, df |-> r.df])
           /\ drawLog' = r.log
           /\ lambdas' = r.lambdas
  /\ UNCHANGED <<pc, prog, today, ticks>>
  /\ UNCHANGED mainVars
  /\ UNCHANGED pureVars
  /\ UNCHANGED envVars

(***************************************************************************)
(* The conversion script: main(), one action per step of its try block.    *)
(* A step that raises runs the except block: main() returns 1.             *)
(***************************************************************************)
MainStart ==
  /\ pc = "idle"
  /\ prog = "conv"
  /\ \E seed \in Seeds, mf \in PipeMareFiles, cf \in PipeChuvaFiles, of \in OutFiles :
       /\ args' = [seed |-> seed]
       /\ mareFile' = mf
       /\ chuvaFile' = cf
       /\ outFile' = of
       /\ outFileBefore' = of
  /\ pc' = "load_mare"
  /\ UNCHANGED <<prog, df_mare, df_chuva, df_final, validated, is_valid, errors, raised, saveCalls,
                 ret, drawLog, lambdas>>
  /\ UNCHANGED genVars
  /\ UNCHANGED pureVars
  /\ UNCHANGED envVars

LoadMare ==
  /\ pc = "load_mare"
  /\ LET r == load_mare_data(mareFile)
     IN  IF r.raised
         THEN /\ raised' = TRUE
              /\ ret' = 1
              /\ pc' = "done"
              /\ UNCHANGED df_mare
         ELSE /\ df_mare' = r.df
              /\ pc' = "load_chuva"
              /\ UNCHANGED <<raised, ret>>
  /\ UNCHANGED <<prog, drawLog, lambdas, args, mareFile, chuvaFile, df_chuva, df_final,
                 validated, is_valid, errors, outFile, outFileBefore, saveCalls>>
  /\ UNCHANGED genVars
  /\ UNCHANGED pureVars
  /\ UNCHANGED envVars

LoadChuva ==
  /\ pc = "load_chuva"
  /\ LET r == load_chuva_data(chuvaFile)
     IN  IF r.raised
         THEN /\ raised' = TRUE
              /\ ret' = 1
              /\ pc' = "done"
              /\ UNCHANGED df_chuva
         ELSE /\ df_chuva' = r.df
              /\ pc' = "merge"
              /\ UNCHANGED <<raised, ret>>
  /\ UNCHANGED <<prog, drawLog, lambdas, args, mareFile, chuvaFile, df_mare, df_final,
                 validated, is_valid, errors, outFile, outFileBefore, saveCalls>>
  /\ UNCHANGED genVars
  /\ UNCHANGED pureVars
  /\ UNCHANGED envVars

Merge ==
  /\ pc = "merge"
  /\ LET r == merge_and_enrich_data(df_mare, df_chuva, args.seed)
     IN  /\ drawLog' = r.log
         /\ lambdas' = r.lambdas
         /\ IF r.raised
            THEN /\ raised' = TRUE
                 /\ ret' = 1
                 /\ pc' = "done"
                 /\ UNCHANGED df_final
            ELSE /\ df_final' = r.df
                 /\ pc' = "validate"
                 /\ UNCHANGED <<raised, ret>>
  /\ UNCHANGED <<prog, args, mareFile, chuvaFile, df_mare, df_chuva, validated, is_valid,
                 errors, outFile, outFileBefore, saveCalls>>
  /\ UNCHANGED genVars
  /\ UNCHANGED pureVars
  /\ UNCHANGED envVars

Validate ==
  /\ pc = "validate"
  /\ LET v == validate_dataframe(df_final)
     IN  IF v.raised
         THEN /\ raised' = TRUE
              /\ ret' = 1
              /\ pc' = "done"
              /\ UNCHANGED <<validated, is_valid, errors>>
         ELSE /\ validated' = TRUE
              /\ is_valid' = v.is_valid
              /\ errors' = v.errors
              /\ UNCHANGED raised
              /\ IF MainSaves(v.is_valid)
                 THEN /\ pc' = "save"
                      /\ UNCHANGED ret
                 ELSE /\ pc' = "done"
                      /\ ret' = 1
  /\ UNCHANGED <<prog, drawLog, lambdas, args, mareFile, chuvaFile, df_mare, df_chuva,
                 df_final, outFile, outFileBefore, saveCalls>>
  /\ UNCHANGED genVars
  /\ UNCHANGED pureVars
  /\ UNCHANGED envVars

Save ==
  /\ pc = "save"
  /\ outFile' = save_converted_data(df_final)
  /\ saveCalls' = saveCalls + 1
  /\ ret' = 0
  /\ pc' = "done"
  /\ UNCHANGED <<prog, drawLog, lambdas, args, mareFile, chuvaFile, df_mare, df_chuva,
                 df_final, validated, is_valid, errors, raised, outFileBefore>>
  /\ UNCHANGED genVars
  /\ UNCHANGED pureVars
  /\ UNCHANGED envVars

Next ==
  \/ ClockTick
  \/ GenerateData
  \/ MainStart
  \/ LoadMare
  \/ LoadChuva
  \/ Merge
  \/ Validate
  \/ Save

Spec == Init /\ [][Next]_vars

(***************************************************************************)
(* load_mare_data alone, on the tide files of MareFiles.                   *)
(***************************************************************************)
InitMare ==
  /\ InitCommon
  /\ pc = "load_mare"
  /\ prog = "conv"
  /\ today = ConvDay
  /\ mareFile \in MareFiles
  /\ chuvaFile = NoChuvaFile

NextMare == LoadMare

SpecMare == InitMare /\ [][NextMare]_vars

(***************************************************************************)
(* load_chuva_data alone, on the rainfall files of ChuvaFiles.             *)
(***************************************************************************)
InitChuva ==
  /\ InitCommon
  /\ pc = "load_chuva"
  /\ prog = "conv"
  /\ today = ConvDay
  /\ mareFile = NoFile
  /\ chuvaFile \in ChuvaFiles

NextChuva == LoadChuva

SpecChuva == InitChuva /\ [][NextChuva]_vars

(***************************************************************************)
(* The occurrence rate alone: the generator's lines 149-186 and the        *)
(* converter's calculate_ocorrencias, each called on the same rainfall,    *)
(* tide and neighbourhood attributes.                                      *)
(***************************************************************************)
RateChuvas == {NaN} \cup {Rat(c, 1000) : c \in {-100000, 0, 25000, 400000, 2000000}}

RateMares == {NaN} \cup {Rat(m, 10000) : m \in {5000, 10000, 10001, 10500, 18000, 25000}}

RateVulns == {0, 3500, 9000}

RateDens == {4800, 10000, 100000}

RateRiscos == {300, 1000}

RateRiscosMare == {0, 300, 1000}

RateTipos ==
  {"litoraneo", "ribeirinho", "altitude", "urbano_denso", "urbano_medio", "industrial"}

\* the raw values of the Poisson draw
RateDraws == {RngStep(RngSeed(seed)) : seed \in Seeds}

RateCalls ==
  [fn : {"rate"}, chuva_mm : RateChuvas, mare_m : RateMares, vulnerabilidade : RateVulns,
   densidade_pop : RateDens, risco_mare : RateRiscosMare, risco_chuva : RateRiscos,
   tipo : RateTipos]

\* the row calculate_ocorrencias receives for a call
RateRow(c) ==
  [chuva_mm |-> c.chuva_mm, mare_m |-> c.mare_m, vulnerabilidade |-> c.vulnerabilidade,
   densidade_pop |-> c.densidade_pop, risco_mare |-> c.risco_mare,
   risco_chuva |-> c.risco_chuva, tipo_bairro |-> c.tipo]

InitRate ==
  /\ InitMain
  /\ pc = "rate"
  /\ prog = "call"
  /\ today = ConvDay
  /\ mareFile = NoFile
  /\ chuvaFile = NoChuvaFile
  /\ files = NoFiles
  /\ modules = OptionalModules
  /\ call \in RateCalls
  /\ result = [gen |-> <<>>, conv |-> <<>>]

\* generate_data, lines 149-186, for one neighbourhood and day: the rate
\* before and after the clamp, in 1e-3, and the Poisson draw
GenRate ==
  /\ pc = "rate"
  /\ result.gen = <<>>
  /\ ~IsNaN(call.chuva_mm)
  /\ ~IsNaN(call.mare_m)
  /\ \E u \in RateDraws :
       LET chuva == ToFixed(call.chuva_mm, 1000)
           mare == ToFixed(call.mare_m, 10000)
           info == [vulnerabilidade |-> call.vulnerabilidade,
                    densidade_pop |-> call.densidade_pop, risco_mare |-> call.risco_mare,
                    risco_chuva |-> call.risco_chuva, tipo |-> call.tipo]
       IN  result' =
             [result EXCEPT !.gen =
                <<[raw |-> Rat(GenLambdaRaw(chuva, mare, info.vulnerabilidade,
                                            info.densidade_pop, info.risco_mare,
                                            info.risco_chuva, info.tipo), 1000),
                   fatores |-> GenFatores(info.tipo),
                   risco_mare_norm |->
                     GenRiscoMareNorm(mare, info.risco_mare, GenFatores(info.tipo).mare),
                   lambda |-> GenLambda(chuva, mare, info),
                   ocorrencias |-> RandomPoisson(GenLambda(chuva, mare, info), u)]>>]
  /\ UNCHANGED <<pc, prog, drawLog, lambdas, call>>
  /\ UNCHANGED genVars
  /\ UNCHANGED mainVars
  /\ UNCHANGED envVars

\* calculate_ocorrencias(row)
ConvRate ==
  /\ pc = "rate"
  /\ result.conv = <<>>
  /\ \E u \in RateDraws :
       result' =
         [result EXCEPT !.conv =
            <<[raw |-> ConvLambdaTotal(RateRow(call)),
               fatores |-> ConvFatores(call.tipo),
               risco_mare_norm |->
                 ConvRiscoMareNorm(IF IsNaN(call.mare_m) THEN 0 ELSE ToFixed(call.mare_m, 10000),
                                   IsNaN(call.mare_m), call.risco_mare,
                                   ConvFatores(call.tipo).mare),
               lambda |-> ConvLambda(RateRow(call)),
               ocorrencias |-> calculate_ocorrencias(RateRow(call), u)]>>]
  /\ UNCHANGED <<pc, prog, drawLog, lambdas, call>>
  /\ UNCHANGED genVars
  /\ UNCHANGED mainVars
  /\ UNCHANGED envVars

NextRate ==
  \/ GenRate
  \/ ConvRate

SpecRate == InitRate /\ [][NextRate]_vars

(***************************************************************************)
(* validate_dataframe alone, and the save that main() makes depend on it,  *)
(* on the tables of ValTables: two rows, with columns missing, a column of *)
(* the wrong dtype, values inside, on and outside the limits, a repeated   *)
(* key, a NaN.                                                             *)
(***************************************************************************)
ValMissingSets == {{}, {"altitude"}, {"altitude", "tipo_bairro"}, {"vulnerabilidade"}, {"date"}}

\* a column whose dtype is not the one of ConvDtypes; no column when col = ""
ValDtypeFaults ==
  {[col |-> "", dtype |-> ""], [col |-> "date", dtype |-> "object"],
   [col |-> "lat", dtype |-> "object"], [col |-> "chuva_mm", dtype |-> "object"],
   [col |-> "altitude", dtype |-> "float"]}

ValLats == {-8200001, -8200000, -8050000, -7900000, -7899999}

ValLons == {-35000000, -34900000, -34799999}

ValVulns == {-1, 0, 1000, 1001}

ValChuvas == {NaN, Rat(12, 1)}

ValRow(bairro, lat, lon, vulnerabilidade, chuva_mm) ==
  [date |-> 20240101, bairro |-> bairro, lat |-> lat, lon |-> lon, altitude |-> 3,
   vulnerabilidade |-> vulnerabilidade, densidade_pop |-> 8700, chuva_mm |-> chuva_mm,
   mare_m |-> Rat(18, 10), ocorrencias |-> 1, tipo_bairro |-> "litoraneo"]

ValTables ==
  {[cols |-> {RequiredCols[i] : i \in 1..Len(RequiredCols)} \ missing,
    dtype |-> [c \in DOMAIN ConvDtypes |-> IF c = fault.col THEN fault.dtype ELSE ConvDtypes[c]],
    rows |-> <<ValRow("Boa Viagem", lat, lon, vuln, chuva),
               ValRow(second, -8090000, -34880000, 650, Rat(0, 1))>>] :
     missing \in ValMissingSets, fault \in ValDtypeFaults, lat \in ValLats, lon \in ValLons,
     vuln \in ValVulns, chuva \in ValChuvas, second \in {"Boa Viagem", "Pina"}}

InitValidate ==
  /\ pc = "validate"
  /\ prog = "conv"
  /\ today = ConvDay
  /\ ticks = 0
  /\ genRuns = <<>>
  /\ drawLog = <<>>
  /\ lambdas = <<>>
  /\ args = [seed |-> 42]
  /\ mareFile = NoFile
  /\ chuvaFile = NoChuvaFile
  /\ df_mare = <<>>
  /\ df_chuva = <<>>
  /\ df_final \in ValTables
  /\ validated = FALSE
  /\ is_valid = FALSE
  /\ errors = <<>>
  /\ raised = FALSE
  /\ outFile \in OutFiles
  /\ outFileBefore = outFile
  /\ saveCalls = 0
  /\ ret = -1
  /\ files = NoFiles
  /\ modules = OptionalModules
  /\ call = NoCall
  /\ result = NoCall

NextValidate ==
  \/ Validate
  \/ Save

SpecValidate == InitValidate /\ [][NextValidate]_vars

(***************************************************************************)
(* get_risk_level alone, on probabilities from -0.05 to 1.05 in steps of   *)
(* 0.005.                                                                  *)
(***************************************************************************)
RiskScores == {5 * k : k \in -10..210}

InitRisk ==
  /\ InitMain
  /\ pc = "risk"
  /\ prog = "call"
  /\ today = ConvDay
  /\ mareFile = NoFile
  /\ chuvaFile = NoChuvaFile
  /\ files = NoFiles
  /\ modules = OptionalModules
  /\ call \in [fn : {"get_risk_level"}, probability : RiskScores]
  /\ result = NoCall

\* get_risk_level(probability)
RiskLevel ==
  /\ pc = "risk"
  /\ result' = [level |-> get_risk_level(call.probability)]
  /\ pc' = "done"
  /\ UNCHANGED <<prog, drawLog, lambdas, call>>
  /\ UNCHANGED genVars
  /\ UNCHANGED mainVars
  /\ UNCHANGED envVars

NextRisk == RiskLevel

SpecRisk == InitRisk /\ [][NextRisk]_vars

(***************************************************************************)
(* parse_float_br alone, on every cell of at most MaxCellLen characters    *)
(* over ParseChars and on the missing cell.                                *)
(***************************************************************************)
ParseChars == {"1", "8", ",", ".", "-", "x"}

ParseCells ==
  {NullCell} \cup UNION {[1..n -> ParseChars] : n \in 0..MaxCellLen}

InitParse ==
  /\ InitMain
  /\ pc = "parse"
  /\ prog = "call"
  /\ today = ConvDay
  /\ mareFile = NoFile
  /\ chuvaFile = NoChuvaFile
  /\ files = NoFiles
  /\ modules = OptionalModules
  /\ call \in [fn : {"parse_float_br"}, value : ParseCells]
  /\ result = NoCall

\* parse_float_br(value)
ParseFloatBr ==
  /\ pc = "parse"
  /\ result' = [value |-> parse_float_br(call.value)]
  /\ pc' = "done"
  /\ UNCHANGED <<prog, drawLog, lambdas, call>>
  /\ UNCHANGED genVars
  /\ UNCHANGED mainVars
  /\ UNCHANGED envVars

NextParse == ParseFloatBr

SpecParse == InitParse /\ [][NextParse]_vars

(***************************************************************************)
(* write_dashboard_app and write_map_html called in any order, at most     *)
(* MaxCalls times, on every file system in which each of the three files   *)
(* is there or not, with folium importable or not.  call.before keeps the  *)
(* file system before the first call, result the calls so far.             *)
(***************************************************************************)
InitWrite ==
  /\ InitMain
  /\ pc = "write"
  /\ prog = "call"
  /\ today = ConvDay
  /\ mareFile = NoFile
  /\ chuvaFile = NoChuvaFile
  /\ files \in [WriteTargets -> {Absent, "old"}]
  /\ modules \in {OptionalModules, OptionalModules \ {"folium"}}
  /\ call = [fn |-> "write", before |-> files]
  /\ result = <<>>

\* write_dashboard_app(repo_root)
WriteDashboardApp ==
  /\ pc = "write"
  /\ Len(result) < MaxCalls
  /\ files' = write_dashboard_app(files)
  /\ result' = Append(result, [fn |-> "write_dashboard_app", raised |-> FALSE,
                               before |-> files])
  /\ UNCHANGED <<pc, prog, drawLog, lambdas, call, modules>>
  /\ UNCHANGED genVars
  /\ UNCHANGED mainVars

\* write_map_html(repo_root)
WriteMapHtml ==
  /\ pc = "write"
  /\ Len(result) < MaxCalls
  /\ LET r == write_map_html(files, "folium" \in modules)
     IN  /\ files' = r.files
         /\ result' = Append(result, [fn |-> "write_map_html", raised |-> r.raised,
                                      before |-> files])
  /\ UNCHANGED <<pc, prog, drawLog, lambdas, call, modules>>
  /\ UNCHANGED genVars
  /\ UNCHANGED mainVars

NextWrite ==
  \/ WriteDashboardApp
  \/ WriteMapHtml

SpecWrite == InitWrite /\ [][NextWrite]_vars

(***************************************************************************)
(* train_and_save_models and load_models called in any order, at most      *)
(* MaxCalls times, on every models directory in which each file is there   *)
(* (left by something else) or not, with scikit-learn and joblib           *)
(* importable or not.  result keeps the calls so far.                      *)
(***************************************************************************)
InitModels ==
  /\ InitMain
  /\ pc = "models"
  /\ prog = "call"
  /\ today = ConvDay
  /\ mareFile = NoFile
  /\ chuvaFile = NoChuvaFile
  /\ files \in [ModelFiles -> {Absent, "stale"}]
  /\ modules \in {OptionalModules \ m : m \in SUBSET {"sklearn", "joblib"}}
  /\ call = [fn |-> "models", before |-> files]
  /\ result = <<>>

\* train_and_save_models(csv_path, models_dir)
TrainAndSaveModels ==
  /\ pc = "models"
  /\ Len(result) < MaxCalls
  /\ LET r == train_and_save_models(files, modules)
     IN  /\ files' = r.files
         /\ result' = Append(result, [fn |-> "train_and_save_models", failed |-> r.raised])
  /\ UNCHANGED <<pc, prog, drawLog, lambdas, call, modules>>
  /\ UNCHANGED genVars
  /\ UNCHANGED mainVars

\* load_models()
LoadModels ==
  /\ pc = "models"
  /\ Len(result) < MaxCalls
  /\ result' = Append(result, [fn |-> "load_models",
                               failed |-> load_models(files, modules).error])
  /\ UNCHANGED <<pc, prog, drawLog, lambdas, call, modules, files>>
  /\ UNCHANGED genVars
  /\ UNCHANGED mainVars

NextModels ==
  \/ TrainAndSaveModels
  \/ LoadModels

SpecModels == InitModels /\ [][NextModels]_vars

(***************************************************************************)
(* sync_bairros_from_geojson run up to MaxCalls times with the same        *)
(* GeoJSON on the files the run before left.  The GeoJSON has at most      *)
(* MaxFeatures features, each with one of GeoNames (<<>> is a feature      *)
(* without a name) and one of GeoCoords; the bairros CSV starts absent or  *)
(* with one row, the audit CSV absent or with one record.                  *)
(***************************************************************************)
GeoNames == {<<>>, <<"S", "e", "'">>, <<"S", "E">>, <<"P", "a">>}

GeoCoords ==
  {<<>>, <<[lat |-> 0, lon |-> 2], [lat |-> 2, lon |-> 4]>>, <<[lat |-> 4, lon |-> 6]>>}

GeoFeatures == [name : GeoNames, coords : GeoCoords]

GeoJSONs == UNION {[1..n -> GeoFeatures] : n \in 0..MaxFeatures}

SyncDbRow(lat, lon) ==
  [bairro |-> <<"S", "E">>, lat_centroid |-> lat, lon_centroid |-> lon, source |-> "manual"]

SyncDbFiles ==
  {NoCsv,
   [exists |-> TRUE, header |-> TRUE,
    rows |-> <<SyncDbRow(PyNum(Rat(4, 1)), PyNum(Rat(6, 1)))>>],
   [exists |-> TRUE, header |-> TRUE, rows |-> <<SyncDbRow(PyNaN, PyNaN)>>]}

SyncAuditFiles ==
  {NoCsv,
   [exists |-> TRUE, header |-> TRUE,
    rows |-> <<[action |-> "add_bairro", bairro |-> <<"S", "E">>]>>]}

InitSync ==
  /\ InitMain
  /\ pc = "sync"
  /\ prog = "call"
  /\ today = ConvDay
  /\ mareFile = NoFile
  /\ chuvaFile = NoChuvaFile
  /\ \E db \in SyncDbFiles, au \in SyncAuditFiles :
       files = [f \in {"bairros.csv", "audit.csv"} |-> IF f = "bairros.csv" THEN db ELSE au]
  /\ modules = OptionalModules
  /\ call \in [fn : {"sync_bairros_from_geojson"}, features : GeoJSONs,
               audit_csv : BOOLEAN, before : {files}]
  /\ result = <<>>

\* sync_bairros_from_geojson(geojson_path, bairros_csv, audit_csv)
Sync ==
  /\ pc = "sync"
  /\ Len(result) < MaxCalls
  /\ LET r == sync_bairros_from_geojson(call.features, files, call.audit_csv)
     IN  /\ files' = r.files
         /\ result' = Append(result, [raised |-> r.raised, before |-> files])
  /\ UNCHANGED <<pc, prog, drawLog, lambdas, call, modules>>
  /\ UNCHANGED genVars
  /\ UNCHANGED mainVars

NextSync == Sync

SpecSync == InitSync /\ [][NextSync]_vars

(***************************************************************************)
(* validate_all_inputs alone, on every combination of a non-numeric value, *)
(* values below, on, inside and above the limits of the four inputs.       *)
(***************************************************************************)
InputNotNum == [num |-> FALSE, v |-> 0]

InputValues(vs) == {InputNotNum} \cup [num : {TRUE}, v : vs]

InitInputs ==
  /\ InitMain
  /\ pc = "inputs"
  /\ prog = "call"
  /\ today = ConvDay
  /\ mareFile = NoFile
  /\ chuvaFile = NoChuvaFile
  /\ files = NoFiles
  /\ modules = OptionalModules
  /\ call \in [fn : {"validate_all_inputs"}, chuva : InputValues({-1, 0, 1005, 2000, 2001}),
               mare : InputValues({-1, 0, 15, 30, 31}),
               vulnerabilidade : InputValues({-1, 0, 5, 10, 11}),
               mes : InputValues({0, 1, 6, 12, 13})]
  /\ result = NoCall

\* validate_all_inputs(chuva, mare, vulnerabilidade, mes)
ValidateAllInputs ==
  /\ pc = "inputs"
  /\ result' = validate_all_inputs(call.chuva, call.mare, call.vulnerabilidade, call.mes)
  /\ pc' = "done"
  /\ UNCHANGED <<prog, drawLog, lambdas, call>>
  /\ UNCHANGED genVars
  /\ UNCHANGED mainVars
  /\ UNCHANGED envVars

NextInputs == ValidateAllInputs

SpecInputs == InitInputs /\ [][NextInputs]_vars

(***************************************************************************)
(* calculate_risk_ranking alone, on every table of at most MaxRankRows     *)
(* rows over two neighbourhoods, with the default weights and with       *)
(* weights that count the rainfall only.                                   *)
(***************************************************************************)
RankRows ==
  [bairro : {"Ibura", "Torre"}, ocorrencias : {0, 2},
   vulnerabilidade : {Rat(30, 100), Rat(60, 100)}, chuva_mm : {Rat(0, 1), Rat(10, 1)},
   mare_m : {Rat(10, 10), Rat(20, 10)}]

RankTables == UNION {[1..n -> RankRows] : n \in 0..MaxRankRows}

RankWeights ==
  {RISK_WEIGHTS,
   [occurrences |-> Rat(0, 1), vulnerability |-> Rat(0, 1), rainfall |-> Rat(1, 1),
    tide |-> Rat(0, 1)]}

InitRank ==
  /\ InitMain
  /\ pc = "rank"
  /\ prog = "call"
  /\ today = ConvDay
  /\ mareFile = NoFile
  /\ chuvaFile = NoChuvaFile
  /\ files = NoFiles
  /\ modules = OptionalModules
  /\ call \in [fn : {"calculate_risk_ranking"}, df : RankTables, weights : RankWeights]
  /\ result = NoCall

\* calculate_risk_ranking(df, weights)
RiskRanking ==
  /\ pc = "rank"
  /\ result' = [stats |-> calculate_risk_ranking(call.df, call.weights)]
  /\ pc' = "done"
  /\ UNCHANGED <<prog, drawLog, lambdas, call>>
  /\ UNCHANGED genVars
  /\ UNCHANGED mainVars
  /\ UNCHANGED envVars

NextRank == RiskRanking

SpecRank == InitRank /\ [][NextRank]_vars

(***************************************************************************)
(* The properties.                                                         *)
(***************************************************************************)
\* the (date, bairro) keys of a table
KeysOf(rows) == {<<rows[i].date, rows[i].bairro>> : i \in 1..Len(rows)}

\* no (date, bairro) pair occurs in two rows
UniqueKeys(rows) == Cardinality(KeysOf(rows)) = Len(rows)

\* consecutive rows are in (date, bairro) order
SortedRows(rows) ==
  \A i \in 1..(Len(rows) - 1) :
    KeyLe(rows[i].date, rows[i].bairro, rows[i + 1].date, rows[i + 1].bairro)

\* the position of a neighbourhood in the registry
RegIndex(b) ==
  CHOOSE i \in 1..Len(ConvBAIRROS_RECIFE) : ConvBAIRROS_RECIFE[i].bairro = b

\* lexicographic order on tuples of four integers
Lex4Le(a, b) ==
  \/ a[1] < b[1]
  \/ a[1] = b[1] /\ a[2] < b[2]
  \/ a[1] = b[1] /\ a[2] = b[2] /\ a[3] < b[3]
  \/ a[1] = b[1] /\ a[2] = b[2] /\ a[3] = b[3] /\ a[4] <= b[4]

\* main() has got a table from merge_and_enrich_data
Merged == prog = "conv" /\ pc \in {"validate", "save", "done"} /\ df_final.rows # <<>>

\* the stream is seeded once, before any draw
SeededOnceFirst(log) ==
  log # <<>> => /\ log[1].kind = "seed"
                /\ \A k \in 2..Len(log) : log[k].kind # "seed"

\* every draw but the last is followed by one of the same neighbourhood and
\* the same or a later date, or by one of a later neighbourhood
NeighbourhoodMajor(log) ==
  \A k \in 2..(Len(log) - 1) :
    Lex4Le(<<RegIndex(log[k].bairro), log[k].date, 0, 0>>,
           <<RegIndex(log[k + 1].bairro), log[k + 1].date, 0, 0>>)

\* where a draw of merge_and_enrich_data stands: the jitter draws first, by
\* neighbourhood, latitude before longitude, then by date; the occurrence
\* draws after them, by date, then by neighbourhood
ConvDrawRank(d) ==
  IF d.kind = "poisson"
  THEN <<1, d.date, RegIndex(d.bairro), 0>>
  ELSE <<0, RegIndex(d.bairro), IF d.kind = "normal_lat" THEN 0 ELSE 1, d.date>>

ConvDrawOrder(log) ==
  /\ \A k \in 2..Len(log) : log[k].kind \in {"normal_lat", "normal_lon", "poisson"}
  /\ \A k \in 2..(Len(log) - 1) : Lex4Le(ConvDrawRank(log[k]), ConvDrawRank(log[k + 1]))

\* C1: main() calls save_converted_data, and the output file changes, only
\* after validate_dataframe returned is_valid = True for the merged table; a
\* run in which validation reports a violation or a step raises never calls
\* save_converted_data and leaves the output path as it was.
C1_SaveOnlyAfterValid ==
  /\ (saveCalls > 0 \/ outFile # outFileBefore) =>
       /\ validated
       /\ is_valid
       /\ ~raised
       /\ validate_dataframe(df_final).is_valid
       /\ validate_dataframe(df_final).errors = <<>>
  /\ (raised \/ (validated /\ errors # <<>>)) =>
       /\ saveCalls = 0
       /\ outFile = outFileBefore
       /\ pc # "save"

\* C1 witness: main() has returned after validation reported a violation, with
\* an older file at the output path.
C1_RejectedRun ==
  /\ pc = "done"
  /\ validated
  /\ errors # <<>>
  /\ ~is_valid
  /\ outFileBefore.exists
  /\ ret = 1

\* C2 as the spec states it: in every table generate_data has returned and in
\* the table merge_and_enrich_data has returned, each (date, bairro) pair
\* occurs in at most one row.
C2_UniqueDateBairro ==
  /\ \A i \in 1..Len(genRuns) : UniqueKeys(genRuns[i].df)
  /\ UniqueKeys(df_final.rows)

\* C3: every row of every table generate_data has returned has
\* 0 <= vulnerabilidade <= 1, chuva_mm >= 0, mare_m >= 0.5 and an integer
\* ocorrencias >= 0.
C3_GenRowRanges ==
  \A i \in 1..Len(genRuns) :
    \A k \in 1..Len(genRuns[i].df) :
      LET r == genRuns[i].df[k]
      IN  /\ 0 <= r.vulnerabilidade
          /\ r.vulnerabilidade <= 1000
          /\ ~IsNaN(r.chuva_mm)
          /\ ~RatLt(r.chuva_mm, Rat(0, 1))
          /\ ~IsNaN(r.mare_m)
          /\ ~RatLt(r.mare_m, Rat(1, 2))
          /\ r.ocorrencias \in Nat

\* C3 witness: a generated row whose tide stands at the floor of 0.5 m.
C3_TideAtFloor ==
  \E i \in 1..Len(genRuns) :
    \E k \in 1..Len(genRuns[i].df) : RatEq(genRuns[i].df[k].mare_m, Rat(1, 2))

\* C4 as the spec states it: any two runs of generate_data with the same seed
\* and the same n_days have returned the same table.
C4_SameSeedSameTable ==
  \A i, j \in 1..Len(genRuns) :
    (genRuns[i].seed = genRuns[j].seed /\ genRuns[i].n_days = genRuns[j].n_days)
      => genRuns[i].df = genRuns[j].df

\* C5 as the spec states it: in the generator and in the converter the stream
\* is seeded once before any draw and every draw of the run is taken in
\* neighbourhood-major, date-minor order.
C5_AllDrawsNeighbourhoodMajor ==
  /\ SeededOnceFirst(drawLog)
  /\ NeighbourhoodMajor(drawLog)

\* C5 amended: in both scripts the stream is seeded once before any draw; the
\* generator takes every draw in neighbourhood-major, date-minor order; the
\* converter takes the jitter draws neighbourhood by neighbourhood (the
\* latitude draws of all its rows, then the longitude draws) and after them
\* the occurrence draws row by row, date-major and neighbourhood-minor, three
\* draws for every row and none for rainfall or tide.
C5_DrawOrderPerScript ==
  /\ SeededOnceFirst(drawLog)
  /\ prog = "gen" => NeighbourhoodMajor(drawLog)
  /\ prog = "conv" => ConvDrawOrder(drawLog)
  /\ Merged => Len(drawLog) = 1 + 3 * Len(df_final.rows)

\* C5 witness: the converter has taken the occurrence draw of the last
\* neighbourhood on one date and next the one of the first neighbourhood on a
\* later date.
C5_ConvDateMajorDraws ==
  /\ Merged
  /\ \E k \in 2..(Len(drawLog) - 1) :
       /\ drawLog[k].kind = "poisson"
       /\ drawLog[k + 1].kind = "poisson"
       /\ RegIndex(drawLog[k].bairro) = Len(ConvBAIRROS_RECIFE)
       /\ RegIndex(drawLog[k + 1].bairro) = 1
       /\ drawLog[k].date < drawLog[k + 1].date

\* C6 as the spec states it: the table of generate_data and the table of
\* merge_and_enrich_data have their rows sorted by date, then by neighbourhood
\* name.
C6_OutputSorted ==
  /\ \A i \in 1..Len(genRuns) : SortedRows(genRuns[i].df)
  /\ SortedRows(df_final.rows)

\* the readings of a tide row that parse
MareReadings(row) ==
  SelectSeq([i \in 1..Len(row.alturas) |-> parse_float_br(row.alturas[i])],
            LAMBDA x : ~IsNaN(x))

\* every reading of a tide file that parses
RECURSIVE MareAllReadings(_)
MareAllReadings(rows) ==
  IF rows = <<>> THEN <<>> ELSE MareReadings(Head(rows)) \o MareAllReadings(Tail(rows))

\* the days of a tide file carry different numbers of valid readings
MareCountsDiffer(rows) ==
  \E i, j \in 1..Len(rows) :
    /\ MareReadings(rows[i]) # <<>>
    /\ MareReadings(rows[j]) # <<>>
    /\ Len(MareReadings(rows[i])) # Len(MareReadings(rows[j]))

\* C7 as the spec states it: load_mare_data gives a day whose four readings
\* are all missing the mean of all the readings of the file that parse, for
\* every file whose days carry different numbers of valid readings.
C7_MissingDayGetsMeanOfReadings ==
  (pc # "load_mare" /\ ~raised /\ MareCountsDiffer(mareFile.rows)) =>
    \A i \in 1..Len(mareFile.rows) :
      MareReadings(mareFile.rows[i]) = <<>> =>
        df_mare[i].mare_m = MeanOf(MareAllReadings(mareFile.rows))

\* the cells of a rainfall file that belong to a (date, bairro), parsed, a
\* cell that does not parse counted as 0
ChuvaCells(file, date, bairro) ==
  LET idx == {<<r, c>> \in (1..Len(file.rows)) \X (1..Len(file.cols)) :
                /\ MapPosto(file.rows[r].Posto) = bairro
                /\ ValidDate(file.rows[r].ano, Meses(file.rows[r].mes_nome), file.cols[c])
                /\ MkDate(file.rows[r].ano, Meses(file.rows[r].mes_nome), file.cols[c])
                   = date}
      val(p) == LET v == parse_float_br(file.rows[p[1]].dias[p[2]])
                IN  IF IsNaN(v) THEN Rat(0, 1) ELSE v
  IN  [n |-> Cardinality(idx),
       nums |-> {<<p, val(p)>> : p \in idx},
       missing |-> Cardinality({p \in idx : IsNaN(parse_float_br(file.rows[p[1]].dias[p[2]]))})]

\* the sum of the values of a set of (cell, value) pairs
RECURSIVE SumCells(_)
SumCells(S) ==
  IF S = {} THEN Rat(0, 1)
  ELSE LET p == CHOOSE p \in S : TRUE
       IN  RatAdd(p[2], SumCells(S \ {p}))

\* the (date, bairro) pairs a rainfall file has a mapped station row for
ChuvaKeys(file) ==
  {<<MkDate(file.rows[r].ano, Meses(file.rows[r].mes_nome), file.cols[c]),
     MapPosto(file.rows[r].Posto)>> :
     <<r, c>> \in {p \in (1..Len(file.rows)) \X (1..Len(file.cols)) :
                    /\ MapPosto(file.rows[p[1]].Posto) # ""
                    /\ ValidDate(file.rows[p[1]].ano, Meses(file.rows[p[1]].mes_nome),
                                 file.cols[p[2]])}}

\* C8: load_chuva_data returns one row for every (date, bairro) that has a
\* mapped station row, and its chuva_mm is the arithmetic mean, over the
\* stations mapped to the neighbourhood, of the day's parsed value, a missing
\* or unparseable cell counted as 0.0; the single station 'Recife (Alto da
\* Brasileira)' with day-15 value '25,4' yields (that month's 15th, 'Torre',
\* 25.4).
C8_ChuvaIsMeanWithMissingAsZero ==
  (pc = "merge" /\ ~raised) =>
    /\ KeysOf(df_chuva) = ChuvaKeys(chuvaFile)
    /\ UniqueKeys(df_chuva)
    /\ \A i \in 1..Len(df_chuva) :
         LET cells == ChuvaCells(chuvaFile, df_chuva[i].date, df_chuva[i].bairro)
         IN  /\ cells.n > 0
             /\ df_chuva[i].chuva_mm = RatDivInt(SumCells(cells.nums), cells.n)
    /\ (/\ Len(chuvaFile.rows) = 1
        /\ chuvaFile.rows[1].Posto = "Recife (Alto da Brasileira)"
        /\ chuvaFile.rows[1].dias[1] = <<"2", "5", ",", "4">>)
       => \E i \in 1..Len(df_chuva) :
            df_chuva[i] = [date |-> MkDate(chuvaFile.rows[1].ano,
                                           Meses(chuvaFile.rows[1].mes_nome), 15),
                           bairro |-> "Torre",
                           chuva_mm |-> Rat(254, 10)]

\* C8 witness: a day of a neighbourhood with two station rows, one cell
\* missing and the other a positive amount, has been aggregated.
C8_TwoStationsOneMissing ==
  /\ pc = "merge"
  /\ ~raised
  /\ \E i \in 1..Len(df_chuva) :
       LET cells == ChuvaCells(chuvaFile, df_chuva[i].date, df_chuva[i].bairro)
       IN  /\ cells.n = 2
           /\ cells.missing = 1
           /\ RatLt(Rat(0, 1), df_chuva[i].chuva_mm)

\* C9 as the spec states it: a station without an entry in the lookup never
\* makes load_chuva_data raise, however many stations of the file are
\* unmapped.
C9_UnmappedNeverRaises ==
  (/\ pc # "load_chuva"
   /\ chuvaFile.exists
   /\ \E r \in 1..Len(chuvaFile.rows) : MapPosto(chuvaFile.rows[r].Posto) = "")
    => ~raised

\* C9 amended: on a rainfall file that exists, load_chuva_data raises exactly
\* when no row of the file belongs to a mapped station; when at least one does,
\* the rows of the unmapped stations are dropped: the result is the one of the
\* file without them.
C9_UnmappedDroppedUnlessAll ==
  (pc # "load_chuva" /\ chuvaFile.exists) =>
    /\ raised <=> (\A r \in 1..Len(chuvaFile.rows) : MapPosto(chuvaFile.rows[r].Posto) = "")
    /\ ~raised =>
         /\ \A i \in 1..Len(df_chuva) : df_chuva[i].bairro # ""
         /\ df_chuva =
              load_chuva_data([chuvaFile EXCEPT
                                 !.rows = SelectSeq(chuvaFile.rows,
                                                    LAMBDA r : MapPosto(r.Posto) # "")]).df

\* C9 witness: a file with a mapped and an unmapped station has been loaded.
C9_MixedFileLoaded ==
  /\ pc = "merge"
  /\ ~raised
  /\ \E r \in 1..Len(chuvaFile.rows) : MapPosto(chuvaFile.rows[r].Posto) = ""
  /\ \E r \in 1..Len(chuvaFile.rows) : MapPosto(chuvaFile.rows[r].Posto) # ""
  /\ df_chuva # <<>>

\* the dates present in the tide table or the rainfall table
MergedDates ==
  {df_mare[i].date : i \in 1..Len(df_mare)} \cup {df_chuva[i].date : i \in 1..Len(df_chuva)}

\* C10 as the spec states it: the table of merge_and_enrich_data has exactly
\* one row for every pair of a date of the tide or the rainfall table and a
\* registry neighbourhood, and on a date every neighbourhood carries the same
\* mare_m.
C10_OneRowPerDateAndBairro ==
  Merged =>
    /\ KeysOf(df_final.rows)
       = MergedDates \X {ConvBAIRROS_RECIFE[i].bairro : i \in 1..Len(ConvBAIRROS_RECIFE)}
    /\ UniqueKeys(df_final.rows)
    /\ \A i, j \in 1..Len(df_final.rows) :
         df_final.rows[i].date = df_final.rows[j].date
           => df_final.rows[i].mare_m = df_final.rows[j].mare_m

\* C11: the rate handed to the Poisson draw lies in [0, 15], in the
\* generator and in the converter, whatever the rainfall, the tide, the
\* vulnerability, the density and the type
C11_RateWithinZeroAndFifteen ==
  /\ \A i \in 1..Len(result.gen) : result.gen[i].lambda \in 0..15000
  /\ \A i \in 1..Len(result.conv) : result.conv[i].lambda \in 0..15000

\* both scripts have computed a rate that exceeded 15 before the clamp, and
\* each hands 15 to the draw
C11_BothClampedAtFifteen ==
  /\ Len(result.gen) = 1
  /\ Len(result.conv) = 1
  /\ RatLt(Rat(15, 1), result.gen[1].raw)
  /\ RatLt(Rat(15, 1), result.conv[1].raw)
  /\ result.gen[1].lambda = 15000
  /\ result.conv[1].lambda = 15000

\* the call has no rainfall, a tide of exactly 1.0 m and no vulnerability
RateNeutralCall ==
  /\ ~IsNaN(call.chuva_mm)
  /\ ~IsNaN(call.mare_m)
  /\ RatEq(call.chuva_mm, Rat(0, 1))
  /\ RatEq(call.mare_m, Rat(1, 1))
  /\ call.vulnerabilidade = 0

\* 0.5 x (densidade / 10000) ** 0.3, in 1e-3
RateBaseline(densidade) == Rat((500 * DensPow(densidade)) \div 1000, 1000)

\* C12: with no rainfall, a tide of 1.0 m and no vulnerability the rate
\* before the clamp is 0.5 x (density / 10000) ** 0.3 in both scripts, for
\* every type and every tide and rain sensitivity
C12_NeutralInputsGiveBaseline ==
  RateNeutralCall =>
    /\ \A i \in 1..Len(result.gen) :
         RatEq(result.gen[i].raw, RateBaseline(call.densidade_pop))
    /\ \A i \in 1..Len(result.conv) :
         RatEq(result.conv[i].raw, RateBaseline(call.densidade_pop))

\* both scripts have computed the rate of a coastal neighbourhood of the
\* highest tide sensitivity on neutral inputs
C12_NeutralCoastalCall ==
  /\ RateNeutralCall
  /\ call.tipo = "litoraneo"
  /\ call.risco_mare = 1000
  /\ call.densidade_pop = 4800
  /\ Len(result.gen) = 1
  /\ Len(result.conv) = 1
  /\ RatEq(result.gen[1].raw, Rat(401, 1000))

\* C13: on the same rainfall, tide, vulnerability, density, sensitivities
\* and type the generator's inline computation and calculate_ocorrencias
\* give the same rate, before and after the clamp, also for a type that is
\* none of the enumerated ones
C13_GeneratorAndConverterRatesAgree ==
  (Len(result.gen) = 1 /\ Len(result.conv) = 1) =>
    /\ ~IsNaN(result.conv[1].raw)
    /\ RatEq(result.gen[1].raw, result.conv[1].raw)
    /\ result.gen[1].lambda = result.conv[1].lambda

\* both scripts have computed the rate of a neighbourhood of a type outside
\* the enumerated ones, under rain and a tide above 1.0 m
C13_UnlistedTypeRated ==
  /\ call.tipo = "industrial"
  /\ ~IsNaN(call.chuva_mm)
  /\ ~IsNaN(call.mare_m)
  /\ RatEq(call.chuva_mm, Rat(25, 1))
  /\ RatEq(call.mare_m, Rat(18, 10))
  /\ call.vulnerabilidade = 3500
  /\ Len(result.gen) = 1
  /\ Len(result.conv) = 1
  /\ result.conv[1].lambda \in 1..14999

\* the dtype validate_dataframe asks of a column: "any" when it asks none
ValWantedDtypes(c) ==
  IF c = "date" THEN {"datetime"}
  ELSE IF c \in {"lat", "lon", "vulnerabilidade", "chuva_mm", "mare_m"} THEN {"float", "int"}
  ELSE IF c \in {"altitude", "densidade_pop", "ocorrencias"} THEN {"int"}
  ELSE {"float", "int", "object", "datetime"}

\* the cell of a range-checked column, and the limits of that column
ValCell(r, c) == IF c = "vulnerabilidade" THEN r.vulnerabilidade ELSE IF c = "lat" THEN r.lat ELSE r.lon

ValLimits(c) ==
  IF c = "vulnerabilidade" THEN <<0, 1000>>
  ELSE IF c = "lat" THEN <<-8200000, -7900000>>
  ELSE <<-35000000, -34800000>>

\* some row of a numeric column c lies outside the closed interval of c
ValSomeOutside(df, c) ==
  /\ c \in df.cols
  /\ df.dtype[c] \in {"float", "int"}
  /\ \E i \in 1..Len(df.rows) :
       \/ ValCell(df.rows[i], c) < ValLimits(c)[1]
       \/ ValCell(df.rows[i], c) > ValLimits(c)[2]

\* the checks of validate_dataframe a table breaks, each as <<check, column>>
ValBroken(df) ==
  {<<"colunas", "">> : c \in {RequiredCols[i] : i \in 1..Len(RequiredCols)} \ df.cols}
  \cup {<<"dtype", c>> : c \in {d \in df.cols : df.dtype[d] \notin ValWantedDtypes(d)}}
  \cup {<<"range", c>> : c \in {d \in {"vulnerabilidade", "lat", "lon"} : ValSomeOutside(df, d)}}
  \cup {<<"duplicatas", "">> :
          x \in {p \in (1..Len(df.rows)) \X (1..Len(df.rows)) :
                   /\ {"date", "bairro"} \subseteq df.cols
                   /\ p[1] < p[2]
                   /\ df.rows[p[1]].date = df.rows[p[2]].date
                   /\ df.rows[p[1]].bairro = df.rows[p[2]].bairro}}
  \cup {<<"ausentes", "">> :
          i \in {j \in 1..Len(df.rows) :
                   \/ "chuva_mm" \in df.cols /\ IsNaN(df.rows[j].chuva_mm)
                   \/ "mare_m" \in df.cols /\ IsNaN(df.rows[j].mare_m)}}

\* the error list has an entry for a broken check
ValListed(errs, chk) ==
  \E k \in 1..Len(errs) :
     IF chk[1] = "colunas" THEN errs[k].kind = "Colunas ausentes"
     ELSE IF chk[1] = "dtype"
       THEN /\ errs[k].kind \in {"deve ser datetime", "deve ser numerica", "deve ser inteira"}
            /\ errs[k].cols = <<chk[2]>>
     ELSE IF chk[1] = "range" THEN errs[k].kind = "fora do range" /\ errs[k].cols = <<chk[2]>>
     ELSE IF chk[1] = "duplicatas" THEN errs[k].kind = "registros duplicados"
     ELSE errs[k].kind = "Valores ausentes"

\* C14: validate_dataframe runs every check on every call and returns every
\* violation: once it has been called on a table that breaks k checks, it
\* has returned a list with one entry for each of the k, and is_valid
\* exactly when the list is empty
C14_EveryBrokenCheckListed ==
  pc # "validate" =>
    /\ validated
    /\ \A chk \in ValBroken(df_final) : ValListed(errors, chk)
    /\ Len(errors) = Cardinality(ValBroken(df_final))
    /\ is_valid <=> (errors = <<>>)


\* the columns a table has are as validate_dataframe wants them: the
\* dtypes, the ranges, no repeated key, no NaN
ValPresentColumnsConform(df) ==
  \A chk \in ValBroken(df) : chk[1] = "colunas"

\* C15: called on a table that lacks required columns and is otherwise
\* conforming, validate_dataframe returns is_valid = False and one error,
\* which names the missing required columns and no other; main() then
\* returns 1 without writing the output file
C15_MissingColumnsNamedAndNotSaved ==
  (/\ pc # "validate"
   /\ ValPresentColumnsConform(df_final)
   /\ <<"colunas", "">> \in ValBroken(df_final)) =>
    /\ validated
    /\ ~is_valid
    /\ Len(errors) = 1
    /\ errors[1].kind = "Colunas ausentes"
    /\ {errors[1].cols[k] : k \in 1..Len(errors[1].cols)}
         = {RequiredCols[i] : i \in 1..Len(RequiredCols)} \ df_final.cols
    /\ Len(errors[1].cols) = Cardinality({RequiredCols[i] : i \in 1..Len(RequiredCols)} \ df_final.cols)
    /\ pc = "done"
    /\ ret = 1
    /\ saveCalls = 0
    /\ outFile = outFileBefore

\* validate_dataframe has rejected an otherwise conforming table without
\* altitude and tipo_bairro, naming the two
C15_TwoColumnsMissing ==
  /\ pc = "done"
  /\ ValPresentColumnsConform(df_final)
  /\ {RequiredCols[i] : i \in 1..Len(RequiredCols)} \ df_final.cols = {"altitude", "tipo_bairro"}
  /\ errors = <<[kind |-> "Colunas ausentes", cols |-> <<"altitude", "tipo_bairro">>, count |-> 2]>>
  /\ ret = 1
  /\ ~outFile.exists

\* C16: when every other check passes, validate_dataframe rejects a table
\* exactly when some row has vulnerabilidade outside [0, 1], lat outside
\* [-8.2, -7.9] or lon outside [-35.0, -34.8]; a value on a limit is inside
C16_RejectedIffSomeValueOutside ==
  (/\ pc # "validate"
   /\ \A chk \in ValBroken(df_final) : chk[1] = "range") =>
    /\ validated
    /\ is_valid <=> ~(\E c \in {"vulnerabilidade", "lat", "lon"} : ValSomeOutside(df_final, c))

\* a table whose first row has vulnerabilidade 0, lat -8.2 and lon -35.0
\* has been accepted and saved
C16_ValuesOnLimitsAccepted ==
  /\ pc = "done"
  /\ df_final.rows[1].vulnerabilidade = 0
  /\ df_final.rows[1].lat = -8200000
  /\ df_final.rows[1].lon = -35000000
  /\ validated
  /\ is_valid
  /\ ret = 0
  /\ outFile = [exists |-> TRUE, rows |-> df_final.rows]

\* C17: when the tide file or the rainfall file does not exist, main()
\* aborts before it has parsed or computed anything from either source
\* (it holds no table loaded from a source), it ends with an error, and the
\* output file is left as it was
C17_MissingFileAbortsBeforeAnyParsing ==
  (pc # "idle" /\ (~mareFile.exists \/ ~chuvaFile.exists)) =>
    /\ df_mare = <<>>
    /\ df_chuva = <<>>
    /\ df_final = EmptyFrame
    /\ pc = "done" => (raised /\ ret = 1)
    /\ saveCalls = 0
    /\ outFile = outFileBefore

\* C18 as stated: the score is bucketed at the cut points 0.3 and 0.6, low
\* below 0.3, moderate between the two, high above 0.6
C18_CutPointsThreeAndSixTenths ==
  (pc = "done" /\ call.probability \in 0..1000) =>
    /\ call.probability < 300 => result.level = "RISCO BAIXO"
    /\ (call.probability > 300 /\ call.probability < 600) => result.level = "RISCO MODERADO"
    /\ call.probability > 600 => result.level = "RISCO ALTO"

\* C18, amended: every score in [0, 1] falls in exactly one of three
\* buckets, cut at the thresholds 0.5 and 0.7 of RISK_THRESHOLDS: high above
\* 0.7, moderate above 0.5 and up to 0.7, low up to 0.5
C18_CutPointsFiveAndSevenTenths ==
  (pc = "done" /\ call.probability \in 0..1000) =>
    /\ result.level \in {"RISCO BAIXO", "RISCO MODERADO", "RISCO ALTO"}
    /\ result.level = "RISCO BAIXO" <=> call.probability <= RISK_THRESHOLDS.low
    /\ result.level = "RISCO MODERADO" <=>
         (call.probability > RISK_THRESHOLDS.low /\ call.probability <= RISK_THRESHOLDS.moderate)
    /\ result.level = "RISCO ALTO" <=> call.probability > RISK_THRESHOLDS.moderate

\* a score of exactly 0.5 has been bucketed as low
C18_HalfIsLow ==
  /\ pc = "done"
  /\ call.probability = 500
  /\ result.level = "RISCO BAIXO"

\* the positions of a cell that hold a given character
CellPositions(cell, ch) == {i \in 1..Len(cell) : cell[i] = ch}

\* a comma-decimal string: digits, one comma, digits
CommaDecimal(cell) ==
  /\ cell # NullCell
  /\ Cardinality(CellPositions(cell, ",")) = 1
  /\ \A i \in 1..Len(cell) : cell[i] \in Digits \cup {","}
  /\ cell[1] # ","
  /\ cell[Len(cell)] # ","

\* the number a comma-decimal string spells
CommaDecimalValue(cell) ==
  LET k == CHOOSE i \in 1..Len(cell) : cell[i] = ","
  IN  RatAdd(Rat(DigitsValue(SubSeq(cell, 1, k - 1)), 1),
             Rat(DigitsValue(SubSeq(cell, k + 1, Len(cell))), Pow10(Len(cell) - k)))

\* a cell that spells no number: a letter, two separators, a hyphen after
\* the first character, or no digit at all
SpellsNoNumber(cell) ==
  \/ cell = NullCell
  \/ CellPositions(cell, "x") # {}
  \/ Cardinality(CellPositions(cell, ",") \cup CellPositions(cell, ".")) > 1
  \/ \E i \in CellPositions(cell, "-") : i > 1
  \/ \A i \in 1..Len(cell) : cell[i] \notin Digits

\* C19: parse_float_br returns the number a comma-decimal string spells
\* ("1,8" gives 1.8), the missing marker for a hyphen, an empty string or
\* a null, and the missing marker, not an exception, for any other cell
\* that spells no number
C19_ParseFloatBr ==
  pc = "done" =>
    /\ result.value.nan \in BOOLEAN
    /\ call.value \in {<<"-">>, <<>>, NullCell} => IsNaN(result.value)
    /\ CommaDecimal(call.value) =>
         /\ ~IsNaN(result.value)
         /\ RatEq(result.value, CommaDecimalValue(call.value))
    /\ SpellsNoNumber(call.value) => IsNaN(result.value)

\* parse_float_br has been called on "1,8" and has returned 1.8
C19_OneCommaEight ==
  /\ pc = "done"
  /\ call.value = <<"1", ",", "8">>
  /\ ~IsNaN(result.value)
  /\ RatEq(result.value, Rat(18, 10))

\* the record a registry holds for a neighbourhood
RegistryEntry(registry, bairro) ==
  registry[CHOOSE i \in 1..Len(registry) : registry[i].bairro = bairro]

\* the static attributes of a table row are those the registry holds for
\* the row's neighbourhood
RowFromRegistry(r, registry) ==
  /\ \E i \in 1..Len(registry) : registry[i].bairro = r.bairro
  /\ r.altitude = RegistryEntry(registry, r.bairro).altitude
  /\ r.densidade_pop = RegistryEntry(registry, r.bairro).densidade_pop
  /\ r.tipo_bairro = RegistryEntry(registry, r.bairro).tipo
  /\ r.vulnerabilidade = RoundHalfEven(RegistryEntry(registry, r.bairro).vulnerabilidade, 10)

\* C20: the registry of the conversion script is the registry of the
\* generator: the same neighbourhoods in the same order, each with the same
\* value of every attribute; so every row the converter writes carries the
\* attributes the generator's registry holds, and the other way round
C20_RegistriesIdentical ==
  /\ Len(ConvBAIRROS_RECIFE) = Len(GenBAIRROS_RECIFE)
  /\ \A i \in 1..Len(GenBAIRROS_RECIFE) :
       /\ ConvBAIRROS_RECIFE[i].bairro = GenBAIRROS_RECIFE[i].bairro
       /\ ConvBAIRROS_RECIFE[i] = GenBAIRROS_RECIFE[i]
  /\ \A k \in 1..Len(df_final.rows) : RowFromRegistry(df_final.rows[k], GenBAIRROS_RECIFE)
  /\ \A g \in 1..Len(genRuns) :
       \A k \in 1..Len(genRuns[g].df) : RowFromRegistry(genRuns[g].df[k], ConvBAIRROS_RECIFE)

\* the converter has saved a table with a row of every neighbourhood, each
\* with the attributes of the generator's registry
C20_ConvertedTableUsesRegistry ==
  /\ pc = "done"
  /\ ret = 0
  /\ {df_final.rows[k].bairro : k \in 1..Len(df_final.rows)}
       = {GenBAIRROS_RECIFE[i].bairro : i \in 1..Len(GenBAIRROS_RECIFE)}
  /\ \E k \in 1..Len(df_final.rows) :
       /\ df_final.rows[k].bairro = "Pina"
       /\ df_final.rows[k].densidade_pop = 12200
       /\ df_final.rows[k].vulnerabilidade = 680

\* the tides above a given one among those of the rate specification, in
\* 1e-4 m
RateTidesAbove(m) ==
  {ToFixed(t, 10000) : t \in {x \in RateMares : ~IsNaN(x) /\ RatLt(m, x)}}

\* C21: the tide sub-score is zero for every tide of at most 1.0 m, never
\* negative, and, for a positive tide sensitivity, positive above 1.0 m and
\* larger for every higher tide, in both scripts
C21_TideScoreZeroThenIncreasing ==
  /\ \A i \in 1..Len(result.gen) :
       LET s == result.gen[i].risco_mare_norm
           f == GenFatores(call.tipo).mare
       IN  /\ s >= 0
           /\ ~RatLt(Rat(1, 1), call.mare_m) => s = 0
           /\ (RatLt(Rat(1, 1), call.mare_m) /\ call.risco_mare > 0) =>
                /\ s > 0
                /\ \A m2 \in RateTidesAbove(call.mare_m) :
                     GenRiscoMareNorm(m2, call.risco_mare, f) > s
  /\ \A i \in 1..Len(result.conv) :
       LET s == result.conv[i].risco_mare_norm
           f == ConvFatores(call.tipo).mare
       IN  /\ s >= 0
           /\ (IsNaN(call.mare_m) \/ ~RatLt(Rat(1, 1), call.mare_m)) => s = 0
           /\ (~IsNaN(call.mare_m) /\ RatLt(Rat(1, 1), call.mare_m) /\ call.risco_mare > 0) =>
                /\ s > 0
                /\ \A m2 \in RateTidesAbove(call.mare_m) :
                     ConvRiscoMareNorm(m2, FALSE, call.risco_mare, f) > s

\* both scripts have scored a tide of 1.0001 m for a highland neighbourhood
\* of positive tide sensitivity, and the score is positive
C21_TideJustAboveOneMetre ==
  /\ ~IsNaN(call.mare_m)
  /\ RatEq(call.mare_m, Rat(10001, 10000))
  /\ call.tipo = "altitude"
  /\ call.risco_mare = 300
  /\ Len(result.gen) = 1
  /\ Len(result.conv) = 1
  /\ result.gen[1].risco_mare_norm = 600
  /\ result.conv[1].risco_mare_norm = 600

\* the (tide, rain, vulnerability) factors of the five categories, in 1e-3
CategoryFactors(tipo) ==
  CASE tipo = "litoraneo" -> <<2500, 1200, 1800>>
    [] tipo = "ribeirinho" -> <<1800, 2200, 2000>>
    [] tipo = "altitude" -> <<100, 1500, 800>>
    [] tipo = "urbano_denso" -> <<800, 1800, 1500>>
    [] tipo = "urbano_medio" -> <<800, 1800, 1500>>

FiveCategories == {"litoraneo", "ribeirinho", "altitude", "urbano_denso", "urbano_medio"}

\* C22: the lookup gives the factors (2.5, 1.2, 1.8) to coastal, (1.8, 2.2,
\* 2.0) to riverside, (0.1, 1.5, 0.8) to highland and (0.8, 1.8, 1.5) to
\* dense-urban and medium-urban neighbourhoods, in both scripts, and every
\* category of either registry is one of the five
C22_CategoryFactors ==
  /\ call.tipo \in FiveCategories =>
       /\ \A i \in 1..Len(result.gen) :
            <<result.gen[i].fatores.mare, result.gen[i].fatores.chuva,
              result.gen[i].fatores.vuln>> = CategoryFactors(call.tipo)
       /\ \A i \in 1..Len(result.conv) :
            <<result.conv[i].fatores.mare, result.conv[i].fatores.chuva,
              result.conv[i].fatores.vuln>> = CategoryFactors(call.tipo)
  /\ \A i \in 1..Len(GenBAIRROS_RECIFE) : GenBAIRROS_RECIFE[i].tipo \in FiveCategories
  /\ \A i \in 1..Len(ConvBAIRROS_RECIFE) : ConvBAIRROS_RECIFE[i].tipo \in FiveCategories

\* both scripts have looked up the factors of a highland neighbourhood
C22_HighlandLookedUp ==
  /\ call.tipo = "altitude"
  /\ Len(result.gen) = 1
  /\ Len(result.conv) = 1
  /\ result.gen[1].fatores = [mare |-> 100, chuva |-> 1500, vuln |-> 800]
  /\ result.conv[1].fatores = [mare |-> 100, chuva |-> 1500, vuln |-> 800]

\* C23: write_dashboard_app and write_map_html never modify a file that was
\* there before the call, a file that was missing is there after the call,
\* and a second call leaves the files as the first call left them.  On
\* SpecWrite: every file of call.before still has its content, app.py is
\* there once write_dashboard_app was called, and both map files are there
\* whenever the last call was write_map_html.
WriteCalled(fn) == \E i \in 1..Len(result) : result[i].fn = fn

C23_ExistingKeptMissingCreated ==
  pc = "write" =>
    /\ \A f \in WriteTargets : Exists(call.before, f) => files[f] = call.before[f]
    /\ WriteCalled("write_dashboard_app") => Exists(files, "app.py")
    /\ WriteCalled("write_map_html") =>
         Exists(files, "map_generated.html") /\ Exists(files, "map_view.html")
    /\ \A i \in 1..Len(result) :
         (\E j \in 1..(i - 1) : result[j].fn = result[i].fn) =>
           result[i].before = IF i = Len(result) THEN files ELSE result[i + 1].before

\* C24: after a successful sync_bairros_from_geojson every feature's name,
\* compared without accents and case, has exactly one row in the bairros
\* CSV, that row's centroid is the feature's computed centroid, and one
\* audit record was appended for each row added or updated.  On SpecSync,
\* after a run that did not raise.
SyncLast == result[Len(result)]

SyncSucceeded == pc = "sync" /\ result # <<>> /\ ~SyncLast.raised

SyncRowsOf(fs, name) ==
  {i \in 1..Len(fs["bairros.csv"].rows) :
     GeoNormalise(fs["bairros.csv"].rows[i].bairro) = GeoNormalise(name)}

SyncCentroidIs(row, coords) ==
  /\ row.lat_centroid = CsvCell(GeoCentroid(coords).lat)
  /\ row.lon_centroid = CsvCell(GeoCentroid(coords).lon)

SyncRowsTouched(before, after) ==
  Len(after.rows) - Len(before.rows)
    + Cardinality({i \in 1..Len(before.rows) : after.rows[i] # before.rows[i]})

SyncOneRowEach ==
  \A i \in 1..Len(call.features) :
    Cardinality(SyncRowsOf(files, call.features[i].name)) = 1

SyncCentroidsMatch ==
  \A i \in 1..Len(call.features) :
    \A k \in SyncRowsOf(files, call.features[i].name) :
      SyncCentroidIs(files["bairros.csv"].rows[k], call.features[i].coords)

SyncAuditPerRow ==
  call.audit_csv =>
    Len(files["audit.csv"].rows) - Len(SyncLast.before["audit.csv"].rows)
      = SyncRowsTouched(SyncLast.before["bairros.csv"], files["bairros.csv"])

C24_OneRowPerFeatureWithItsCentroid ==
  SyncSucceeded => SyncOneRowEach /\ SyncCentroidsMatch /\ SyncAuditPerRow

\* C25: if any feature of the GeoJSON lacks a name, the call raises and
\* neither the bairros CSV nor the audit CSV is created or modified,
\* whatever the other features contain.  On SpecSync: with a nameless
\* feature every run so far raised and the files are those of call.before.
GeoSomeNameless == \E i \in 1..Len(call.features) : call.features[i].name = <<>>

C25_NamelessFeatureRaisesAndWritesNothing ==
  pc = "sync" /\ GeoSomeNameless =>
    /\ \A i \in 1..Len(result) : result[i].raised
    /\ files = call.before

C25_NamelessAfterNamedFeature ==
  /\ pc = "sync"
  /\ result # <<>>
  /\ Len(call.features) = 2
  /\ call.features[1].name # <<>>
  /\ call.features[1].coords # <<>>
  /\ call.features[2].name = <<>>
  /\ call.audit_csv
  /\ ~call.before["bairros.csv"].exists
  /\ ~files["bairros.csv"].exists

\* C26: a second run with the same GeoJSON on the CSV the first run left
\* adds no row, changes no row of the bairros CSV and appends no audit
\* record, also when two features share a normalised name.  On SpecSync:
\* from the second run on, a run leaves both files as it found them.
C26_SecondRunChangesNothing ==
  pc = "sync" /\ Len(result) >= 2 =>
    /\ files["bairros.csv"] = SyncLast.before["bairros.csv"]
    /\ files["audit.csv"].rows = SyncLast.before["audit.csv"].rows

\* C27: validate_all_inputs returns valid = True exactly when each of the
\* four validators returned valid = True; an input that was only clamped
\* to its range never makes the overall result invalid.
InputPartsValid ==
  /\ result.parts.chuva.valid
  /\ result.parts.mare.valid
  /\ result.parts.vulnerabilidade.valid
  /\ result.parts.mes.valid

C27_ValidIffEveryValidatorValid ==
  pc = "done" /\ call.fn = "validate_all_inputs" => (result.valid <=> InputPartsValid)

\* C28: every file load_models reads from the models directory is a file
\* train_and_save_models writes, so that after a training run that
\* succeeded load_models returns the models and not the error result.
\* On SpecModels, for every load_models after a successful training.
C28_LoadSucceedsAfterTraining ==
  pc = "models" =>
    \A i, j \in 1..Len(result) :
      /\ i < j
      /\ result[i].fn = "train_and_save_models"
      /\ ~result[i].failed
      /\ result[j].fn = "load_models"
      => /\ \A k \in 1..Len(LoadReads) : LoadReads[k] \in TrainWrites
         /\ ~result[j].failed

\* C29: every neighbourhood the station table names is a key of the
\* registry, and every registry neighbourhood is the target of at least
\* one station, so that no neighbourhood of the converted table is without
\* rainfall merely for lack of a mapping.  On Spec: the targets are
\* registry keys and every row of df_final is of a neighbourhood some
\* station maps to.
PostoTargets == {MAPEAMENTO_POSTOS[i][2] : i \in 1..Len(MAPEAMENTO_POSTOS)}

RegistryKeys == {ConvBAIRROS_RECIFE[i].bairro : i \in 1..Len(ConvBAIRROS_RECIFE)}

C29_StationsCoverTheRegistry ==
  /\ PostoTargets \subseteq RegistryKeys
  /\ \A i \in 1..Len(df_final.rows) : df_final.rows[i].bairro \in PostoTargets

\* C30: calculate_risk_ranking returns one row per neighbourhood, ranked
\* exactly 1..n, with risk_score non-increasing as the rank increases, and
\* each score is calculate_risk_score of the neighbourhood's summed
\* occurrences, first vulnerability, mean rainfall and mean tide with the
\* same weights.
RankRowsOf(b) == SelectSeq(call.df, LAMBDA r : r.bairro = b)

RankTotal(rows) == SumSeq([i \in 1..Len(rows) |-> Rat(rows[i].ocorrencias, 1)])

RankMean(rows, col) == RatDivInt(SumSeq([i \in 1..Len(rows) |-> rows[i][col]]), Len(rows))

C30_RankingOnePerNeighbourhoodSortedAndScored ==
  pc = "done" /\ call.fn = "calculate_risk_ranking" =>
    LET stats == result.stats
    IN  /\ {stats[n].bairro : n \in 1..Len(stats)}
             = {call.df[i].bairro : i \in 1..Len(call.df)}
        /\ \A m, n \in 1..Len(stats) : stats[m].bairro = stats[n].bairro => m = n
        /\ \A n \in 1..Len(stats) : stats[n].rank = n
        /\ \A n \in 1..(Len(stats) - 1) :
             ~RatLt(stats[n].risk_score, stats[n + 1].risk_score)
        /\ \A n \in 1..Len(stats) :
             LET rows == RankRowsOf(stats[n].bairro)
             IN  stats[n].risk_score
                   = calculate_risk_score(RankTotal(rows), rows[1].vulnerabilidade,
                                          RankMean(rows, "chuva_mm"),
                                          RankMean(rows, "mare_m"), call.weights)

C30_LaterNeighbourhoodRankedFirst ==
  /\ pc = "done"
  /\ call.fn = "calculate_risk_ranking"
  /\ Len(result.stats) = 2
  /\ Len(call.df) = 2
  /\ result.stats[1].bairro = "Torre"
  /\ result.stats[2].bairro = "Ibura"
  /\ RatLt(result.stats[2].risk_score, result.stats[1].risk_score)
  /\ call.weights = RISK_WEIGHTS
====
